---------------------------- MODULE Spec2Model ----------------------------
(***************************************************************************)
(* APApp: attestation reports from ERP exports.                            *)
(*                                                                         *)
(* The model covers the row pipeline of src/src/report.py (field parsing,  *)
(* unit lookup, row aggregation, formatting) and the process-wide table of *)
(* src/src/app.py (startup load, upload + reload, preview).                *)
(*                                                                         *)
(* Text is modelled as a sequence of one-character strings, so that        *)
(* strip / replace / split / contains are computed as the code computes    *)
(* them.  A float is modelled as an exact decimal [neg, m, e] standing for *)
(* (-1)^neg * m / 10^e, or as NaN.                                         *)
(***************************************************************************)
EXTENDS Integers, Sequences, FiniteSets, TLC

VARIABLES
    input_csv,   \* the canonical CSV on disk (INPUT_CSV): its columns and raw cells
    uom_files,   \* the files at the candidate paths of Jednostki.csv
    DF,          \* app.DF: the process-wide table of parsed records
    SOURCES,     \* app.SOURCES: the distinct source numbers of DF, sorted
    documents,   \* the documents of the page the last request answered with
    reload_pc,   \* the line of _reload_data the uploading request has reached
    output_dir,  \* the files of OUTPUT_DIR, by name
    flashed,     \* the notices the last request flashed, in order
    BASE_CUSTOMERS,       \* app.BASE_CUSTOMERS: the selection index() filters by
    base_customers_json,  \* the file base_customers.json
    call,        \* pure-function harness: the function under study and its argument
    ret          \* pure-function harness: the results obtained so far, in order

vars ==
    <<input_csv, uom_files, DF, SOURCES, documents, reload_pc, output_dir, flashed,
      BASE_CUSTOMERS, base_customers_json, call, ret>>

\* what the upload and customer pages read and write beside the table
pageVars == <<output_dir, flashed, BASE_CUSTOMERS, base_customers_json>>

appVars == <<input_csv, uom_files, DF, SOURCES, documents, reload_pc, pageVars>>

fnVars == <<call, ret>>

-----------------------------------------------------------------------------
(* Bounds of the model *)

\* longest quantity cell enumerated exhaustively over QtyChars
MaxQtyLen == 5

\* the whole parts 0..MaxWhole of the quantities formatted and parsed back
MaxWhole == 3

\* most rows of a unit reference table
MaxRefRows == 3

\* most records of the document handed to build_rows_for_document
MaxRecs == 3

\* most rows of an uploaded table
MaxCsvRows == 2

\* most records of the table handed to apply_uom_lookup
MaxOverlayRows == 2

\* most records of the document handed to infer_doc_header
MaxHeaderRows == 3

\* the largest of the small whole parts of the quantities regenerated
MaxRegenWhole == 2

\* most records of the document whose rows are built more than once
MaxAgainRecs == 3

\* most rows of NazwyKlienci.csv
MaxNameRows == 3

-----------------------------------------------------------------------------
(* Text helpers: Python str methods on sequences of characters *)

SP == " "

\* U+00A0 no-break space
NBSP == "nbsp"

\* U+202F narrow no-break space
NNBSP == "nnbsp"

QUOTE == "q"

Whitespace == {SP, NBSP, NNBSP}

Digits == {"0", "1", "2", "3", "4", "5", "6", "7", "8", "9"}

\* str.lstrip() / str.rstrip() / str.strip() with a set of characters to drop
RECURSIVE LStripChars(_, _)
LStripChars(s, cs) ==
    IF s # <<>> /\ Head(s) \in cs THEN LStripChars(Tail(s), cs) ELSE s

RECURSIVE RStripChars(_, _)
RStripChars(s, cs) ==
    IF s # <<>> /\ s[Len(s)] \in cs
    THEN RStripChars(SubSeq(s, 1, Len(s) - 1), cs)
    ELSE s

StripChars(s, cs) == RStripChars(LStripChars(s, cs), cs)

\* str.strip(): whitespace of either end
Strip(s) == StripChars(s, Whitespace)

\* str.replace(c, "")
RECURSIVE RemoveAll(_, _)
RemoveAll(s, c) ==
    IF s = <<>> THEN <<>>
    ELSE IF Head(s) = c THEN RemoveAll(Tail(s), c)
    ELSE <<Head(s)>> \o RemoveAll(Tail(s), c)

\* str.replace(c, d) for single characters
ReplaceChar(s, c, d) == [i \in 1..Len(s) |-> IF s[i] = c THEN d ELSE s[i]]

\* c in s
HasChar(s, c) == \E i \in 1..Len(s) : s[i] = c

\* s.count(c)
CountChar(s, c) == Cardinality({i \in 1..Len(s) : s[i] = c})

\* s.startswith(p)
StartsWith(s, p) == Len(s) >= Len(p) /\ SubSeq(s, 1, Len(p)) = p

\* p in s (substring)
Contains(s, p) ==
    \E i \in 1..(Len(s) - Len(p) + 1) : SubSeq(s, i, i + Len(p) - 1) = p

\* the text after the first occurrence of c (s.split(c)[1] when c occurs once)
RECURSIVE AfterFirst(_, _)
AfterFirst(s, c) ==
    IF s = <<>> THEN <<>>
    ELSE IF Head(s) = c THEN Tail(s)
    ELSE AfterFirst(Tail(s), c)

-----------------------------------------------------------------------------
(* Floats *)

\* float("nan")
NaN == [nan |-> TRUE]

\* the outcome of a call that raises ValueError
ValueError == [raises |-> "ValueError"]

RECURSIVE Pow10(_)
Pow10(k) == IF k = 0 THEN 1 ELSE 10 * Pow10(k - 1)

\* the float (-1)^neg * m / 10^e in its one canonical form
RECURSIVE Num(_, _, _)
Num(neg, m, e) ==
    IF m = 0 THEN [neg |-> FALSE, m |-> 0, e |-> 0]
    ELSE IF e > 0 /\ m % 10 = 0 THEN Num(neg, m \div 10, e - 1)
    ELSE [neg |-> neg, m |-> m, e |-> e]

Zero == Num(FALSE, 0, 0)

IsNum(v) == v # NaN /\ v # ValueError

DigitVal(c) == CHOOSE d \in 0..9 : ToString(d) = c

\* the natural number written by a sequence of digits
RECURSIVE DigitsVal(_)
DigitsVal(ds) ==
    IF ds = <<>> THEN 0
    ELSE 10 * DigitsVal(SubSeq(ds, 1, Len(ds) - 1)) + DigitVal(ds[Len(ds)])

AllDigits(s) == \A i \in 1..Len(s) : s[i] \in Digits

\* Python's float(str): surrounding whitespace dropped, an optional sign, then
\* "nan" or a decimal literal with at most one point and at least one digit;
\* anything else raises ValueError.
float(s) ==
    LET t    == Strip(s)
        sgn  == t # <<>> /\ Head(t) \in {"-", "+"}
        neg  == t # <<>> /\ Head(t) = "-"
        body == IF sgn THEN Tail(t) ELSE t
        ds   == RemoveAll(body, ".")
    IN  IF body = <<"n", "a", "n">> THEN NaN
        ELSE IF ds # <<>> /\ AllDigits(ds) /\ CountChar(body, ".") <= 1
        THEN Num(neg, DigitsVal(ds),
                 IF HasChar(body, ".") THEN Len(AfterFirst(body, ".")) ELSE 0)
        ELSE ValueError

\* load_csv.to_float, the cleaning of the cell: strip, drop spaces and
\* no-break spaces, strip quotes
clean_cell(v) == StripChars(RemoveAll(RemoveAll(Strip(v), SP), NBSP), {QUOTE})

\* a mutant of disambiguate_comma: every comma is a thousands separator
comma_always_thousands(s) == RemoveAll(s, ",")

\* load_csv.to_float, the comma rule: parts = s.replace('-', '').split(',');
\* with two parts and a second part of length 3 the comma is dropped,
\* otherwise every comma becomes a point
disambiguate_comma(s) ==
    IF HasChar(s, ",")
    THEN IF CountChar(RemoveAll(s, "-"), ",") = 1
            /\ Len(AfterFirst(RemoveAll(s, "-"), ",")) = 3
         THEN RemoveAll(s, ",")
         ELSE ReplaceChar(s, ",", ".")
    ELSE s

\* load_csv.to_float
to_float(v) ==
    LET s == clean_cell(v)
    IN  IF float(s) # ValueError THEN float(s)
        ELSE IF float(disambiguate_comma(s)) # ValueError
        THEN float(disambiguate_comma(s))
        ELSE Zero

\* the decimal digits of a natural number
RECURSIVE DigitsOf(_)
DigitsOf(n) ==
    IF n < 10 THEN <<ToString(n)>>
    ELSE DigitsOf(n \div 10) \o <<ToString(n % 10)>>

\* format(n, ","): the digits with a comma before every group of three
RECURSIVE Grouped(_)
Grouped(ds) ==
    IF Len(ds) <= 3 THEN ds
    ELSE Grouped(SubSeq(ds, 1, Len(ds) - 3)) \o <<",">>
         \o SubSeq(ds, Len(ds) - 2, Len(ds))

\* the three digits of a number of thousandths below 1000
Frac3(t) == <<ToString(t \div 100), ToString((t \div 10) % 10), ToString(t % 10)>>

\* q in thousandths, rounded as f"{n:.3f}" rounds; a decimal that lies exactly
\* half way is rounded by its binary value, which is either neighbour (tieUp)
Thousandths(q, tieUp) ==
    IF q.e <= 3 THEN q.m * Pow10(3 - q.e)
    ELSE LET d   == Pow10(q.e - 3)
             lo  == q.m \div d
             rem == q.m % d
         IN  IF 2 * rem > d \/ (2 * rem = d /\ tieUp) THEN lo + 1 ELSE lo

\* f"{n:,.3f}"
Fixed3(q, tieUp) ==
    LET t == Thousandths(q, tieUp)
    IN  (IF q.neg THEN <<"-">> ELSE <<>>)
        \o Grouped(DigitsOf(t \div 1000)) \o <<".">> \o Frac3(t % 1000)

\* abs(n - round(n)) < 1e-9, for a decimal of at most 9 fractional digits
NearInt(q) == q.e = 0

\* a mutant of to_polish: only the decimal point is replaced
to_polish_decimal_only(s) == ReplaceChar(s, ".", ",")

\* ReportBuilder._format_qty_pl, the replace chain of its last line
to_polish(s) ==
    ReplaceChar(ReplaceChar(ReplaceChar(s, ",", "_"), ".", ","), "_", NNBSP)

\* ReportBuilder._format_qty_pl; round(nan) raises ValueError
format_qty_pl(q, tieUp) ==
    IF ~IsNum(q) THEN ValueError
    ELSE IF NearInt(q)
    THEN to_polish((IF q.neg THEN <<"-">> ELSE <<>>) \o Grouped(DigitsOf(q.m)))
    ELSE to_polish(RStripChars(RStripChars(Fixed3(q, tieUp), {"0"}), {"."}))

-----------------------------------------------------------------------------
(* Quantities: the calls studied *)

SeqsUpTo(S, n) == UNION {[1..k -> S] : k \in 0..n}

\* the characters of the quantity cells enumerated exhaustively
QtyChars == {"0", "2", "5", ",", ".", "-", "n", "a"}

\* further quantity cells: the examples of the documentation, cells with
\* spaces, no-break spaces and quotes, and display strings of the formatter
QtyExamples == {
    <<"-", "2", ",", "0", "0", "0">>,
    <<"2", ",", "0", "0", "0">>,
    <<"2", ",", "5">>,
    <<"2", ",", "5", "0">>,
    <<SP, "2", SP, "0", "0", "0", SP>>,
    <<"2", NBSP, "0", "0", "0", ",", "5">>,
    <<"1", NNBSP, "0", "0", "0">>,
    <<NNBSP, "1", "2", NNBSP>>,
    <<QUOTE, "2", ",", "5", QUOTE>>,
    <<QUOTE, "-", "2", ",", "0", "0", "0", QUOTE>>,
    <<"+", "2">>,
    <<"1", ",", "2", "3", "4">>,
    <<"x">> }

QtyCells == SeqsUpTo(QtyChars, MaxQtyLen) \cup QtyExamples

\* whole parts of the quantities formatted and parsed back
Wholes == (0..MaxWhole) \cup {12, 999, 1000, 1234, 1234567}

\* the non-negative quantities of at most 3 fractional digits
Quantities == {Num(FALSE, w * 1000 + f, 3) : w \in Wholes, f \in 0..999}

\* the quantities formatted on their own: of either sign, with up to 4
\* fractional digits (some of them half way between two thousandths), and
\* whole numbers of one, two and three digit groups
FormatWholes == {0, 1, 10, 999, 1000, 1999, 12345}

FormatFractions == {0, 4, 5, 6, 1000, 1200, 1230, 1234, 1235, 2500, 5000, 9994, 9995, 9996}

FormatInputs ==
    {Num(neg, w * 10000 + f, 4) : neg \in BOOLEAN, w \in FormatWholes, f \in FormatFractions}
    \cup {Num(neg, 1234567, 0) : neg \in BOOLEAN}

\* pd.DataFrame(): no columns, no rows; also a file of zero bytes
EmptyFrame == [cols |-> {}, rows |-> <<>>]

\* no file in OUTPUT_DIR, no notice, no base customer chosen or saved
InitPages ==
    /\ output_dir = <<>>
    /\ flashed = <<>>
    /\ BASE_CUSTOMERS = <<>>
    /\ base_customers_json = [exists |-> FALSE]

\* the application at rest while one function is studied
InitApp ==
    /\ input_csv = EmptyFrame
    /\ uom_files = <<>>
    /\ DF = EmptyFrame
    /\ SOURCES = <<>>
    /\ documents = <<>>
    /\ reload_pc = "idle"
    /\ InitPages

InitQty ==
    /\ InitApp
    /\ ret = <<>>
    /\ \/ \E s \in QtyCells : call = [fn |-> "to_float", arg |-> s]
       \/ \E x \in Quantities : call = [fn |-> "round_trip", arg |-> x]
       \/ \E q \in FormatInputs : call = [fn |-> "format_qty_pl", arg |-> q]

\* df[qty].apply(to_float) on one cell
ToFloat ==
    /\ call.fn = "to_float" /\ ret = <<>>
    /\ ret' = <<to_float(call.arg)>>
    /\ UNCHANGED <<call, appVars>>

\* the display string of a quantity
FormatQty ==
    /\ call.fn = "round_trip" /\ ret = <<>>
    /\ \E tieUp \in BOOLEAN : ret' = <<format_qty_pl(call.arg, tieUp)>>
    /\ UNCHANGED <<call, appVars>>

\* the display string read back as a quantity cell
ParseBack ==
    /\ call.fn = "round_trip" /\ Len(ret) = 1
    /\ ret' = Append(ret, to_float(ret[1]))
    /\ UNCHANGED <<call, appVars>>

\* the value read back, displayed again
FormatAgain ==
    /\ call.fn = "round_trip" /\ Len(ret) = 2
    /\ \E tieUp \in BOOLEAN : ret' = Append(ret, format_qty_pl(ret[2], tieUp))
    /\ UNCHANGED <<call, appVars>>

\* REPORTER._format_qty_pl(q)
FormatQtyPl ==
    /\ call.fn = "format_qty_pl" /\ ret = <<>>
    /\ \E tieUp \in BOOLEAN : ret' = <<format_qty_pl(call.arg, tieUp)>>
    /\ UNCHANGED <<call, appVars>>

NextQty == ToFloat \/ FormatQty \/ ParseBack \/ FormatAgain \/ FormatQtyPl

SpecQty == InitQty /\ [][NextQty]_vars

-----------------------------------------------------------------------------
(* Quantities: the claims *)

ParsedCell == call.fn = "to_float" /\ Len(ret) = 1

\* a cell with no digit in it
NonNumeric(s) == \A i \in 1..Len(s) : s[i] \notin Digits

\* C6: to_float returns a number for every cell, without raising, and returns
\* 0 for every cell that is non-numeric garbage (here: a cell with no digit).
C6_TotalAndZeroOnGarbage ==
    ParsedCell =>
        /\ IsNum(ret[1])
        /\ NonNumeric(call.arg) => ret[1] = Zero

\* the comma rule as documented: a single comma followed by exactly three
\* digits is dropped, any other comma is the decimal point
comma_by_digits(s) ==
    IF CountChar(s, ",") = 1
       /\ Len(AfterFirst(s, ",")) = 3 /\ AllDigits(AfterFirst(s, ","))
    THEN RemoveAll(s, ",")
    ELSE ReplaceChar(s, ",", ".")

\* C7: when the direct parse of a cell with a comma fails, the result is the
\* value of the cell with its comma removed if the comma is single and
\* followed by exactly three digits, and with every comma read as the decimal
\* point otherwise (0 when that is no number either).
C7_CommaRule ==
    (ParsedCell /\ float(clean_cell(call.arg)) = ValueError
                /\ HasChar(clean_cell(call.arg), ",")) =>
        ret[1] = (IF float(comma_by_digits(clean_cell(call.arg))) # ValueError
                  THEN float(comma_by_digits(clean_cell(call.arg)))
                  ELSE Zero)

RoundTripDone == call.fn = "round_trip" /\ Len(ret) = 3

\* C8 as stated: for every non-negative quantity x of at most 3 fractional
\* digits, formatting x, parsing the display string with to_float and
\* formatting again gives the display string of x.
C8_RoundTrip == RoundTripDone => ret[3] = ret[1]

\* x < 1000 with at most 2 fractional digits
BelowThousandTwoDigits(x) == x.e <= 2 /\ x.m < 1000 * Pow10(x.e)

\* C8 as amended: for every non-negative quantity x below 1000 of at most 2
\* fractional digits, to_float recovers x from its display string, and
\* formatting again gives the same display string.
C8_RoundTripBelowThousandTwoDigits ==
    (RoundTripDone /\ BelowThousandTwoDigits(call.arg)) =>
        /\ ret[2] = call.arg
        /\ ret[3] = ret[1]

\* 12.34 is displayed "12,34", read back as 12.34 and displayed "12,34" again
C8_Witness ==
    /\ RoundTripDone
    /\ call.arg = Num(FALSE, 1234, 2)
    /\ ret[1] = <<"1", "2", ",", "3", "4">>
    /\ ret[2] = call.arg

-----------------------------------------------------------------------------
(* Dates *)

\* Python's None
None == [none |-> TRUE]

\* the outcome of dateutil's parse when it raises (ParserError, a ValueError)
ParserError == [raises |-> "ParserError"]

\* A date cell is modelled by its lexical shape:
\*   [kind |-> "empty"]                         the empty string
\*   [kind |-> "words"]                         text without any number
\*   [kind |-> "numeric", parts, sep]           three numbers a<sep>b<sep>c,
\*                                              each written without leading zeros
DateNums == {0, 1, 3, 12, 13, 26, 31, 32, 2026}

DateSeps == {"/", ".", "-"}

DateCells ==
    {[kind |-> "empty"], [kind |-> "words"]}
    \cup {[kind |-> "numeric", parts |-> <<a, b, c>>, sep |-> sp] :
             a \in DateNums, b \in DateNums, c \in DateNums, sp \in DateSeps}

IsLeap(y) == (y % 4 = 0 /\ y % 100 # 0) \/ y % 400 = 0

DaysInMonth(y, m) ==
    IF m \in {4, 6, 9, 11} THEN 30
    ELSE IF m = 2 THEN (IF IsLeap(y) THEN 29 ELSE 28)
    ELSE 31

\* datetime(year, month, day) accepts the triple
ValidDate(y, m, d) ==
    /\ y \in 1..9999
    /\ m \in 1..12
    /\ d \in 1..DaysInMonth(y, m)

\* dateutil: a number written with more than two digits is labelled a year
YearLabelled(n) == n > 99

\* dateutil's convertyear for a two-digit year, for a clock in 1983..2050
ConvertYear(y) == 2000 + y

\* dateutil.parser.parse(str(s), dayfirst=..., yearfirst=False, fuzzy=True) on
\* a date cell: the year/month/day resolution of three numbers, then the
\* construction of the date, which raises when the triple is no calendar date
dateutil_parse(s, dayfirst) ==
    IF s.kind # "numeric" THEN ParserError
    ELSE
    LET p == s.parts
        labelled == {i \in 1..3 : YearLabelled(p[i])}
        ymd == IF p[1] > 31 \/ 1 \in labelled
               THEN IF dayfirst /\ p[3] <= 12
                    THEN [y |-> p[1], m |-> p[3], d |-> p[2]]
                    ELSE [y |-> p[1], m |-> p[2], d |-> p[3]]
               ELSE IF p[1] > 12 \/ (dayfirst /\ p[2] <= 12)
               THEN [y |-> p[3], m |-> p[2], d |-> p[1]]
               ELSE [y |-> p[3], m |-> p[1], d |-> p[2]]
        year == IF ymd.y < 100 /\ labelled = {} THEN ConvertYear(ymd.y) ELSE ymd.y
    IN  IF Cardinality(labelled) > 1 THEN ParserError
        ELSE IF ValidDate(year, ymd.m, ymd.d)
        THEN [year |-> year, month |-> ymd.m, day |-> ymd.d]
        ELSE ParserError

\* a mutant of parse_date_any: the day-first reading is tried first
parse_date_any_dayfirst(s) ==
    IF dateutil_parse(s, TRUE) # ParserError THEN dateutil_parse(s, TRUE)
    ELSE IF dateutil_parse(s, FALSE) # ParserError THEN dateutil_parse(s, FALSE)
    ELSE None

\* _parse_date_any on text: month-first, on an exception day-first, on an
\* exception None
parse_date_any(s) ==
    IF dateutil_parse(s, FALSE) # ParserError THEN dateutil_parse(s, FALSE)
    ELSE IF dateutil_parse(s, TRUE) # ParserError THEN dateutil_parse(s, TRUE)
    ELSE None

InitDate ==
    /\ InitApp
    /\ ret = <<>>
    /\ \E s \in DateCells : call = [fn |-> "parse_date_any", arg |-> s]

\* df[expiry].apply(_parse_date_any) on one cell
ParseDate ==
    /\ call.fn = "parse_date_any" /\ ret = <<>>
    /\ ret' = <<parse_date_any(call.arg)>>
    /\ UNCHANGED <<call, appVars>>

NextDate == ParseDate

SpecDate == InitDate /\ [][NextDate]_vars

ParsedDate == call.fn = "parse_date_any" /\ Len(ret) = 1

IsDate(v) == v # None /\ v # ParserError

\* the month-first reading a/b/c of three numbers, when it is a calendar date
MonthFirst(p) ==
    LET y == IF p[3] < 100 THEN ConvertYear(p[3]) ELSE p[3]
    IN  IF ValidDate(y, p[1], p[2]) THEN [year |-> y, month |-> p[1], day |-> p[2]]
        ELSE None

\* C9: _parse_date_any never raises on text; the empty string and text that
\* neither attempt can read give None; the day-first attempt decides the
\* result only when the month-first attempt failed; and a cell a/b/c whose
\* first two numbers are both in 1..12 is read month-first (month a, day b).
C9_ParseDateNeverRaisesMonthFirst ==
    ParsedDate =>
        /\ ret[1] # ParserError
        /\ call.arg.kind \in {"empty", "words"} => ret[1] = None
        /\ ret[1] = None <=> (/\ dateutil_parse(call.arg, FALSE) = ParserError
                              /\ dateutil_parse(call.arg, TRUE) = ParserError)
        /\ dateutil_parse(call.arg, FALSE) # ParserError
              => ret[1] = dateutil_parse(call.arg, FALSE)
        /\ (/\ call.arg.kind = "numeric"
            /\ call.arg.parts[1] \in 1..12
            /\ call.arg.parts[2] \in 1..12)
              => ret[1] = MonthFirst(call.arg.parts)

\* 3/1/2026 is read as the 1st of March 2026
C9_Witness ==
    /\ ParsedDate
    /\ call.arg = [kind |-> "numeric", parts |-> <<3, 1, 2026>>, sep |-> "/"]
    /\ ret[1] = [year |-> 2026, month |-> 3, day |-> 1]

-----------------------------------------------------------------------------
(* Unit lookup *)

\* str.upper() on the letters that occur in the modelled codes
LowerCase ==
    <<"a", "b", "c", "d", "e", "f", "g", "h", "i", "j", "k", "l", "m", "n",
      "o", "p", "q", "r", "s", "t", "u", "v", "w", "x", "y", "z">>

UpperCase ==
    <<"A", "B", "C", "D", "E", "F", "G", "H", "I", "J", "K", "L", "M", "N",
      "O", "P", "Q", "R", "S", "T", "U", "V", "W", "X", "Y", "Z">>

UpperChar(c) ==
    IF \E i \in 1..26 : LowerCase[i] = c
    THEN UpperCase[CHOOSE i \in 1..26 : LowerCase[i] = c]
    ELSE c

Upper(s) == [i \in 1..Len(s) |-> UpperChar(s[i])]

LowerChar(c) ==
    IF \E i \in 1..26 : UpperCase[i] = c
    THEN LowerCase[CHOOSE i \in 1..26 : UpperCase[i] = c]
    ELSE c

Lower(s) == [i \in 1..Len(s) |-> LowerChar(s[i])]

\* _normalize_uom: strip, upper, then the synonym table, unknown values
\* passing through
normalize_uom(u) ==
    LET val == Upper(Strip(u))
    IN  IF val \in {<<"K", "G">>, <<"K", "I", "L", "O", "G", "R", "A", "M">>, <<"K", "I", "L", "O", "G", "R", "A", "M", "Y">>}
        THEN <<"K", "G">>
        ELSE IF val \in {<<"S", "Z", "T">>, <<"S", "Z", "T", "U", "K", "A">>, <<"S", "Z", "T", "U", "K", "I">>}
        THEN <<"S", "Z", "T">>
        ELSE IF val \in {<<"L">>, <<"L", "I", "T", "R">>, <<"L", "I", "T", "R", "Y">>}
        THEN <<"L">>
        ELSE IF val \in {<<"G">>, <<"G", "R", "A", "M">>, <<"G", "R", "A", "M", "Y">>}
        THEN <<"G">>
        ELSE IF val \in {<<"M", "L">>, <<"M", "I", "L", "I", "L", "I", "T", "R">>, <<"M", "I", "L", "I", "L", "I", "T", "R", "Y">>}
        THEN <<"M", "L">>
        ELSE val

\* the empty dict
EmptyDict == <<>>

\* d[k] = v
DictSet(d, k, v) == [x \in DOMAIN d \cup {k} |-> IF x = k THEN v ELSE d[x]]

\* d.setdefault(k, v)
SetDefault(d, k, v) == IF k \in DOMAIN d THEN d ELSE DictSet(d, k, v)

\* d.get(k, default)
DictGet(d, k, default) == IF k \in DOMAIN d THEN d[k] ELSE default

\* re.fullmatch(r"\d{4,5}", code)
IsDigits45(code) == Len(code) \in {4, 5} /\ AllDigits(code)

\* re.fullmatch(r"Z\d{5}", code)
IsZ5(code) == Len(code) = 6 /\ code[1] = "Z" /\ AllDigits(Tail(code))

\* a mutant of register_row: aliases overwrite what an earlier row registered
register_row_overwrite(mapping, code, uom) ==
    LET m1 == DictSet(mapping, code, uom)
        m2 == IF IsDigits45(code)
              THEN IF Len(code) = 4 THEN DictSet(m1, <<"Z", "0">> \o code, uom)
                   ELSE DictSet(m1, <<"Z">> \o code, uom)
              ELSE m1
        raw == Tail(code)
        m3 == IF IsZ5(code) /\ Head(raw) = "0"
              THEN DictSet(DictSet(m2, raw, uom), Tail(raw), uom)
              ELSE m2
    IN  IF code = <<>> THEN mapping ELSE m3

\* a mutant of register_row: the code of the row is registered like an alias,
\* so what is registered first stays
register_row_first_wins(mapping, code, uom) ==
    LET m1 == SetDefault(mapping, code, uom)
        m2 == IF IsDigits45(code)
              THEN IF Len(code) = 4 THEN SetDefault(m1, <<"Z", "0">> \o code, uom)
                   ELSE SetDefault(m1, <<"Z">> \o code, uom)
              ELSE m1
        raw == Tail(code)
        m3 == IF IsZ5(code) /\ Head(raw) = "0"
              THEN SetDefault(SetDefault(m2, raw, uom), Tail(raw), uom)
              ELSE m2
    IN  IF code = <<>> THEN mapping ELSE m3

\* load_uom_lookup, the body of the loop over the rows of the table
register_row(mapping, code, uom) ==
    LET m1 == DictSet(mapping, code, uom)
        m2 == IF IsDigits45(code)
              THEN IF Len(code) = 4 THEN SetDefault(m1, <<"Z", "0">> \o code, uom)
                   ELSE SetDefault(m1, <<"Z">> \o code, uom)
              ELSE m1
        raw == Tail(code)
        m3 == IF IsZ5(code) /\ Head(raw) = "0"
              THEN LET m3a == IF Len(raw) = 5 THEN SetDefault(m2, raw, uom) ELSE m2
                   IN  IF Len(Tail(raw)) = 4 THEN SetDefault(m3a, Tail(raw), uom)
                       ELSE m3a
              ELSE m2
    IN  IF code = <<>> THEN mapping ELSE m3

\* the columns Nr and UOM of the table as the loop sees them
NormalRows(rows) ==
    [i \in 1..Len(rows) |->
        [Nr |-> Upper(Strip(rows[i].Nr)), UOM |-> normalize_uom(rows[i].UOM)]]

\* load_uom_lookup, the loop over the rows
RECURSIVE build_mapping(_)
build_mapping(rows) ==
    IF rows = <<>> THEN EmptyDict
    ELSE register_row(build_mapping(SubSeq(rows, 1, Len(rows) - 1)),
                      rows[Len(rows)].Nr, rows[Len(rows)].UOM)

\* a candidate path with no file behind it
NoFile == [exists |-> FALSE]

\* a file that neither read_csv nor ExcelFile can read
Unreadable == [exists |-> TRUE, readable |-> FALSE]

\* load_uom_lookup: the header names the code column
is_nr_header(c) == Lower(Strip(c)) \in {<<"n", "r">>, <<"n", "r", " ", "z", "a", "p", "a", "s", "u">>}

\* load_uom_lookup: the header names the unit column
is_uom_header(c) ==
    \/ StartsWith(Lower(Strip(c)), <<"p", "o", "d", "s", "t", ".">>)
    \/ StartsWith(Lower(Strip(c)), <<"p", "o", "d", "s", "t", "a", "w", "o", "w", "a">>)
    \/ Contains(Lower(Strip(c)), <<"j", "e", "d", "n", "o", "s", "t", "k", "a">>)

\* a readable table: its headers, and in its rows the cells of the code
\* column (Nr) and of the unit column (UOM) where these are found
HeaderTable(headers, rows) ==
    [exists |-> TRUE, readable |-> TRUE, headers |-> headers, rows |-> rows]

\* a readable table with or without a code column and a unit column
Table(has_nr, has_uom, rows) ==
    HeaderTable(<<IF has_nr THEN <<"N", "r">> ELSE <<"O", "p", "i", "s">>,
                  IF has_uom THEN <<"P", "o", "d", "s", "t", ".", " ", "j", "e", "d", "n", "o", "s", "t", "k", "a", " ", "m", "i", "a", "r", "y">>
                  ELSE <<"O", "p", "i", "s">>>>, rows)

\* a mutant of chosen_file: only the path passed is looked at
chosen_file_passed_only(candidates) == candidates[1]

\* load_uom_lookup: next((p for p in candidates if p and os.path.exists(p)), None)
chosen_file(candidates) ==
    LET found == {i \in 1..Len(candidates) : candidates[i].exists}
    IN  IF found = {} THEN NoFile
        ELSE candidates[CHOOSE i \in found : \A j \in found : i <= j]

\* a mutant of load_uom_lookup: the mapping is built without a unit column
\* being looked for
load_uom_lookup_any_unit_column(candidates) ==
    LET chosen == chosen_file(candidates)
    IN  IF ~chosen.exists THEN EmptyDict
        ELSE IF ~chosen.readable THEN EmptyDict
        ELSE IF chosen.rows = <<>> THEN EmptyDict
        ELSE IF \A i \in 1..Len(chosen.headers) : ~is_nr_header(chosen.headers[i])
        THEN EmptyDict
        ELSE build_mapping(NormalRows(chosen.rows))

\* load_uom_lookup: the first candidate path that exists is read; no file, an
\* unreadable or empty file or a missing column give {}
load_uom_lookup(candidates) ==
    LET chosen == chosen_file(candidates)
    IN  IF ~chosen.exists THEN EmptyDict
        ELSE IF ~chosen.readable THEN EmptyDict
        ELSE IF chosen.rows = <<>> THEN EmptyDict
        ELSE IF \A i \in 1..Len(chosen.headers) : ~is_nr_header(chosen.headers[i])
        THEN EmptyDict
        ELSE IF \A i \in 1..Len(chosen.headers) : ~is_uom_header(chosen.headers[i])
        THEN EmptyDict
        ELSE build_mapping(NormalRows(chosen.rows))

\* code cells of the reference tables
RefCodes == {
    <<"1", "2", "3", "4">>,
    <<"Z", "0", "1", "2", "3", "4">>,
    <<"0", "1", "2", "3", "4">>,
    <<"1", "2", "3", "4", "5">>,
    <<"Z", "1", "2", "3", "4", "5">>,
    <<SP, "z", "0", "1", "2", "3", "4">>,
    <<>> }

\* unit cells of the reference tables
RefUnits == {<<"k", "i", "l", "o", "g", "r", "a", "m">>, <<"L">>}

RefRows == [Nr : RefCodes, UOM : RefUnits]

\* the table found at the fallback locations, when there is one
FallbackTable ==
    Table(TRUE, TRUE, <<[Nr |-> <<"1", "2", "3", "4">>, UOM |-> <<"s", "z", "t">>]>>)

\* headers of reference tables
CodeHeaders == {<<" ", "N", "R", " ">>, <<"n", "r", " ", "z", "a", "p", "a", "s", "u">>, <<"N", "r", ".">>, <<"N", "u", "m", "e", "r">>}

UnitHeaders == {<<"J", "E", "D", "N", "O", "S", "T", "K", "A">>, <<"P", "o", "d", "s", "t", "a", "w", "o", "w", "a", " ", "j", "m">>, <<" ", "p", "o", "d", "s", "t", ".", " ", "j", "m">>, <<"J", "m">>}

RefFiles ==
    {NoFile, Unreadable}
    \cup {HeaderTable(<<a, b>>, <<[Nr |-> <<"1", "2", "3", "4">>, UOM |-> <<"L">>]>>) :
             a \in CodeHeaders, b \in UnitHeaders}
    \cup {Table(TRUE, TRUE, rows) : rows \in SeqsUpTo(RefRows, MaxRefRows)}
    \cup {Table(n, u, rows) : n \in BOOLEAN, u \in BOOLEAN,
                              rows \in SeqsUpTo(RefRows, 1)}

InitUom ==
    /\ InitApp
    /\ ret = <<>>
    /\ \/ \E f \in RefFiles :
             call = [fn |-> "load_uom_lookup", arg |-> <<f, NoFile>>]
       \/ \E f \in {NoFile, Unreadable} :
             call = [fn |-> "load_uom_lookup", arg |-> <<f, FallbackTable>>]

\* load_uom_lookup(path) with the files found at the candidate paths
LoadUomLookup ==
    /\ call.fn = "load_uom_lookup" /\ ret = <<>>
    /\ ret' = <<load_uom_lookup(call.arg)>>
    /\ UNCHANGED <<call, appVars>>

NextUom == LoadUomLookup

SpecUom == InitUom /\ [][NextUom]_vars

-----------------------------------------------------------------------------
(* Unit lookup: the claims *)

\* the lookup was built from the rows of a table
LookupBuilt ==
    /\ call.fn = "load_uom_lookup" /\ Len(ret) = 1
    /\ chosen_file(call.arg).exists
    /\ chosen_file(call.arg).readable
    /\ \E i \in 1..2 : is_nr_header(chosen_file(call.arg).headers[i])
    /\ \E i \in 1..2 : is_uom_header(chosen_file(call.arg).headers[i])

\* the rows of the reference table, codes trimmed and uppercased, units normalized
RefTable == NormalRows(chosen_file(call.arg).rows)

\* what a lookup yields for a code that is no key
NoUnit == <<"<no unit>">>

Lookup(code) == DictGet(ret[1], code, NoUnit)

Is4Digits(c) == Len(c) = 4 /\ AllDigits(c)

Is5Digits(c) == Len(c) = 5 /\ AllDigits(c)

IsZ0dddd(c) == Len(c) = 6 /\ c[1] = "Z" /\ c[2] = "0" /\ AllDigits(Tail(c))

HasOwnEntry(c) ==
    LET table == RefTable
    IN  \E j \in 1..Len(table) : table[j].Nr = c

\* C10 as stated: a row dddd -> u makes Z0dddd yield u, a row ddddd -> u makes
\* Zddddd yield u, and a row Z0dddd -> u makes the bare dddd yield u unless
\* dddd has its own row.
C10_AliasInvariant ==
    LookupBuilt =>
        \A i \in 1..Len(RefTable) :
            LET c == RefTable[i].Nr
                u == RefTable[i].UOM
            IN  /\ Is4Digits(c) => Lookup(<<"Z", "0">> \o c) = u
                /\ Is5Digits(c) => Lookup(<<"Z">> \o c) = u
                /\ (IsZ0dddd(c) /\ ~HasOwnEntry(SubSeq(c, 3, 6)))
                      => Lookup(SubSeq(c, 3, 6)) = u

\* the alias of the statement for a code: Z0dddd for dddd, Zddddd for ddddd,
\* dddd for Z0dddd
StatedAlias(c) ==
    IF Is4Digits(c) THEN {<<"Z", "0">> \o c}
    ELSE IF Is5Digits(c) THEN {<<"Z">> \o c}
    ELSE IF IsZ0dddd(c) THEN {SubSeq(c, 3, 6)}
    ELSE {}

\* every code a row registers besides its own: Z0dddd also registers 0dddd
DerivedCodes(c) ==
    StatedAlias(c) \cup (IF IsZ0dddd(c) THEN {Tail(c)} ELSE {})

\* C10 as amended: the alias of a row yields the unit of that row unless the
\* alias has its own row in the table or an earlier row derived the same alias
\* (the first row deriving an alias decides it); in both cases the alias is a
\* key of the lookup.
C10_AliasUnlessRegistered ==
    LookupBuilt =>
        LET table == RefTable
        IN  \A i \in 1..Len(table) : \A a \in StatedAlias(table[i].Nr) :
                /\ a \in DOMAIN ret[1]
                /\ (/\ \A j \in 1..Len(table) : table[j].Nr # a
                    /\ \A j \in 1..(i - 1) : a \notin DerivedCodes(table[j].Nr))
                      => Lookup(a) = table[i].UOM

\* the table Z01234 -> L, 12345 -> kilogram: 1234 yields L and Z12345 yields KG
C10_Witness ==
    /\ LookupBuilt
    /\ chosen_file(call.arg).rows =
          <<[Nr |-> <<"Z", "0", "1", "2", "3", "4">>, UOM |-> <<"L">>],
            [Nr |-> <<"1", "2", "3", "4", "5">>, UOM |-> <<"k", "i", "l", "o", "g", "r", "a", "m">>]>>
    /\ Lookup(<<"1", "2", "3", "4">>) = <<"L">>
    /\ Lookup(<<"Z", "1", "2", "3", "4", "5">>) = <<"K", "G">>

-----------------------------------------------------------------------------
(* Row aggregation *)

\* the characters of the modelled texts in code point order
CodePoints ==
    <<" ", "-", "/", "0", "1", "2", "3", "4", "5", "6", "7", "8", "9", "A",
      "B", "C", "D", "E", "F", "G", "H", "I", "J", "K", "L", "M", "N", "O",
      "P", "Q", "R", "S", "T", "U", "V", "W", "X", "Y", "Z", "a", "b", "c",
      "d", "e", "f", "g", "h", "i", "j", "k", "l", "m", "n", "o", "p", "q",
      "r", "s", "t", "u", "v", "w", "x", "y", "z">>

Ord(c) == CHOOSE i \in 1..Len(CodePoints) : CodePoints[i] = c

\* a < b for str
RECURSIVE StrLess(_, _)
StrLess(a, b) ==
    IF b = <<>> THEN FALSE
    ELSE IF a = <<>> THEN TRUE
    ELSE IF Head(a) = Head(b) THEN StrLess(Tail(a), Tail(b))
    ELSE Ord(Head(a)) < Ord(Head(b))

\* a < b for the values of a datetime column; NaT (None) sorts last
DateLess(a, b) ==
    IF a = None THEN FALSE
    ELSE IF b = None THEN TRUE
    ELSE \/ a.year < b.year
         \/ a.year = b.year /\ a.month < b.month
         \/ a.year = b.year /\ a.month = b.month /\ a.day < b.day

\* a + b for floats
AddNum(a, b) ==
    LET e  == IF a.e > b.e THEN a.e ELSE b.e
        sa == (IF a.neg THEN 0 - a.m ELSE a.m) * Pow10(e - a.e)
        sb == (IF b.neg THEN 0 - b.m ELSE b.m) * Pow10(e - b.e)
    IN  IF sa + sb < 0 THEN Num(TRUE, 0 - (sa + sb), e) ELSE Num(FALSE, sa + sb, e)

\* abs(x)
AbsNum(a) == Num(FALSE, a.m, a.e)

\* x < 0
IsNegative(a) == a.neg /\ a.m > 0

\* the outbound marker of the document type ("Wydanie sprzedazy", kept as one
\* chunk of text)
OutboundMarker == <<"Wydanie sprzedazy">>

\* a mutant of movement_filter: marker and negative quantity are both required
movement_filter_and(df) ==
    IF df.has_doc_type
    THEN {i \in 1..Len(df.rows) :
            Contains(df.rows[i].doc_type, OutboundMarker)
            /\ IsNegative(df.rows[i].qty)}
    ELSE 1..Len(df.rows)

\* build_rows_for_document, the movement filter: the positions of the records
\* kept in df_use
movement_filter(df) ==
    IF df.has_doc_type
    THEN {i \in 1..Len(df.rows) :
            Contains(df.rows[i].doc_type, OutboundMarker)
            \/ IsNegative(df.rows[i].qty)}
    ELSE 1..Len(df.rows)

\* group_cols of build_rows_for_document
GroupKey(r) ==
    [name |-> r.name, lot_no |-> r.lot_no, expiry |-> r.expiry,
     item_no |-> r.item_no, uom |-> r.uom]

\* the order in which groupby lists its groups: by the key columns in turn
KeyLess(a, b) ==
    \/ StrLess(a.name, b.name)
    \/ a.name = b.name /\ StrLess(a.lot_no, b.lot_no)
    \/ a.name = b.name /\ a.lot_no = b.lot_no /\ DateLess(a.expiry, b.expiry)
    \/ a.name = b.name /\ a.lot_no = b.lot_no /\ a.expiry = b.expiry
       /\ StrLess(a.item_no, b.item_no)
    \/ a.name = b.name /\ a.lot_no = b.lot_no /\ a.expiry = b.expiry
       /\ a.item_no = b.item_no /\ StrLess(a.uom, b.uom)

\* a mutant of group_keys: groupby without dropna=False drops the keys with NaT
group_keys_dropna(df, kept) ==
    {GroupKey(df.rows[i]) : i \in kept} \ {k \in {GroupKey(df.rows[i]) : i \in kept} : k.expiry = None}

\* groupby(group_cols, dropna=False): the keys of the groups
group_keys(df, kept) == {GroupKey(df.rows[i]) : i \in kept}

\* the records of a group
Members(df, kept, key) == {i \in kept : GroupKey(df.rows[i]) = key}

RECURSIVE SumAbsQty(_, _)
\* a mutant of SumQty: the absolute quantities are summed
SumAbsQty(df, ids) ==
    IF ids = {} THEN Zero
    ELSE LET i == CHOOSE j \in ids : \A k \in ids : j <= k
         IN  AddNum(AbsNum(df.rows[i].qty), SumAbsQty(df, ids \ {i}))

\* a mutant of SumQty: the quantity of the first record of the group
FirstQty(df, ids) ==
    IF ids = {} THEN Zero
    ELSE df.rows[CHOOSE j \in ids : \A k \in ids : j <= k].qty

RECURSIVE SumQty(_, _)
\* [qty_col].sum() over the records of a group
SumQty(df, ids) ==
    IF ids = {} THEN Zero
    ELSE LET i == CHOOSE j \in ids : \A k \in ids : j <= k
         IN  AddNum(df.rows[i].qty, SumQty(df, ids \ {i}))

\* the keys in the order groupby lists them
RECURSIVE SortedKeys(_)
SortedKeys(keys) ==
    IF keys = {} THEN <<>>
    ELSE LET k == CHOOSE x \in keys : \A y \in keys : x = y \/ KeyLess(x, y)
         IN  <<k>> \o SortedKeys(keys \ {k})

\* groupby(...)[qty].sum().reset_index(): one line per key, with the records
\* summed into it
grouped(df) ==
    LET kept == movement_filter(df)
        keys == SortedKeys(group_keys(df, kept))
    IN  [i \in 1..Len(keys) |->
            [key |-> keys[i],
             members |-> Members(df, kept, keys[i]),
             qty |-> SumQty(df, Members(df, kept, keys[i]))]]

\* the order of sort_values(by=[name, lot, expiry])
SortLess(a, b) ==
    \/ StrLess(a.name, b.name)
    \/ a.name = b.name /\ StrLess(a.lot_no, b.lot_no)
    \/ a.name = b.name /\ a.lot_no = b.lot_no /\ DateLess(a.expiry, b.expiry)

\* g put into a sorted sequence behind everything that is not greater
RECURSIVE InsertStable(_, _)
InsertStable(s, g) ==
    IF s = <<>> THEN <<g>>
    ELSE IF SortLess(g.key, s[Len(s)].key)
    THEN InsertStable(SubSeq(s, 1, Len(s) - 1), g) \o <<s[Len(s)]>>
    ELSE s \o <<g>>

\* a mutant of sort_values: the lines are left in reverse order
RECURSIVE sort_values_reversed(_)
sort_values_reversed(s) ==
    IF s = <<>> THEN <<>>
    ELSE <<s[Len(s)]>> \o sort_values_reversed(SubSeq(s, 1, Len(s) - 1))

\* grouped.sort_values(by=[name, lot, expiry], kind="stable")
RECURSIVE sort_values(_)
sort_values(s) ==
    IF s = <<>> THEN <<>>
    ELSE InsertStable(sort_values(SubSeq(s, 1, Len(s) - 1)), s[Len(s)])

\* the lines of the grouped table in the order the rows are made from them
sorted_groups(df) == sort_values(grouped(df))

\* ReportRow(lp=lp, name=..., qty=abs(float(qty)), ...) for line i
ReportRow(lp, g) ==
    [lp |-> lp,
     name |-> Strip(g.key.name),
     qty |-> AbsNum(g.qty),
     uom |-> Strip(g.key.uom),
     lot_no |-> Strip(g.key.lot_no),
     expiry |-> g.key.expiry,
     item_no |-> Strip(g.key.item_no)]

\* a mutant of df_after_build: the movement filter is applied to df itself
df_after_build_in_place(df) ==
    [df EXCEPT !.rows = SelectSeq(df.rows,
        LAMBDA r : ~df.has_doc_type \/ Contains(r.doc_type, OutboundMarker) \/ IsNegative(r.qty))]

\* build_rows_for_document, df_use = df.copy(): the frame handed in as the call
\* leaves it; every later assignment is to df_use or grouped
df_after_build(df) == df

\* ReportBuilder.build_rows_for_document
build_rows_for_document(df) ==
    LET lines == sorted_groups(df)
    IN  [i \in 1..Len(lines) |-> ReportRow(i, lines[i])]

Date(y, m, d) == [year |-> y, month |-> m, day |-> d]

\* a parsed record of the table
Rec(name, lot, expiry, item, uom, qty, doc_type) ==
    [name |-> name, lot_no |-> lot, expiry |-> expiry, item_no |-> item,
     uom |-> uom, qty |-> qty, doc_type |-> doc_type]

\* the records the documents of the row aggregation are made of
DocRecs == {
    Rec(<<"A">>, <<"L", "1">>, Date(2026, 1, 1), <<"Z", "0", "1", "2", "3", "4">>, <<"K", "G">>,
        Num(TRUE, 5, 0), OutboundMarker),
    Rec(<<"A">>, <<"L", "1">>, Date(2026, 1, 1), <<"Z", "0", "1", "2", "3", "4">>, <<"K", "G">>,
        Num(FALSE, 25, 1), <<"Korekta ", "Wydanie sprzedazy", " 2">>),
    Rec(<<"A">>, <<"L", "1">>, Date(2026, 1, 1), <<"Z", "0", "1", "2", "3", "4">>, <<"K", "G">>,
        Num(FALSE, 2, 0), <<"Przyjecie zakupu">>),
    Rec(<<"A">>, <<"L", "1">>, Date(2026, 1, 1), <<"Z", "0", "1", "2", "3", "4">>, <<"K", "G">>,
        Num(TRUE, 3, 0), <<"Przyjecie zakupu">>),
    Rec(<<"A">>, <<"L", "1">>, None, <<"Z", "0", "1", "2", "3", "4">>, <<"K", "G">>,
        Num(TRUE, 5, 0), OutboundMarker),
    Rec(<<"A">>, <<"L", "1">>, Date(2026, 3, 1), <<"Z", "0", "1", "2", "3", "4">>, <<"K", "G">>,
        Num(TRUE, 5, 0), OutboundMarker),
    Rec(<<"A">>, <<"L", "2">>, Date(2026, 1, 1), <<"Z", "0", "1", "2", "3", "4">>, <<"K", "G">>,
        Num(TRUE, 5, 0), OutboundMarker),
    Rec(<<"B">>, <<"L", "1">>, Date(2026, 1, 1), <<"Z", "0", "1", "2", "3", "4">>, <<"K", "G">>,
        Num(TRUE, 5, 0), OutboundMarker),
    Rec(<<"A", SP>>, <<"L", "1">>, Date(2026, 1, 1), <<"Z", "0", "1", "2", "3", "4">>, <<"K", "G">>,
        Num(TRUE, 3, 0), OutboundMarker),
    Rec(<<"A">>, <<"L", "1">>, Date(2026, 1, 1), <<"Z", "1", "2", "3", "4", "5">>, <<"K", "G">>,
        Num(TRUE, 5, 0), OutboundMarker),
    Rec(<<"A">>, <<"L", "1">>, Date(2026, 1, 1), <<"Z", "0", "1", "2", "3", "4">>, <<>>,
        Num(TRUE, 5, 0), OutboundMarker) }

InitRows ==
    /\ InitApp
    /\ ret = <<>>
    /\ \E has \in BOOLEAN, rows \in SeqsUpTo(DocRecs, MaxRecs) :
          call = [fn |-> "build_rows_for_document",
                  arg |-> [has_doc_type |-> has, rows |-> rows]]

\* REPORTER.build_rows_for_document(df_doc)
BuildRows ==
    /\ call.fn = "build_rows_for_document" /\ ret = <<>>
    /\ ret' = <<build_rows_for_document(call.arg)>>
    /\ UNCHANGED <<call, appVars>>

NextRows == BuildRows

SpecRows == InitRows /\ [][NextRows]_vars

-----------------------------------------------------------------------------
(* Claims on the row aggregation *)

RowsBuilt == call.fn = "build_rows_for_document" /\ Len(ret) = 1

\* the document handed in and the rows returned
Doc == call.arg

Rows == ret[1]

\* the records summed into each row
Sources ==
    LET lines == sorted_groups(Doc)
    IN  [i \in 1..Len(lines) |-> lines[i].members]

\* the records summed into row i
RowSources(i) == Sources[i]

\* the row displays the fields of the key (name, lot, item and unit trimmed)
ShowsKey(row, k) ==
    /\ row.name = Strip(k.name)
    /\ row.lot_no = Strip(k.lot_no)
    /\ row.expiry = k.expiry
    /\ row.item_no = Strip(k.item_no)
    /\ row.uom = Strip(k.uom)

\* a quantity in signed thousandths
Thousandth(q) == (IF q.neg THEN 0 - q.m ELSE q.m) * Pow10(3 - q.e)

RECURSIVE TotalThousandths(_)
TotalThousandths(ids) ==
    IF ids = {} THEN 0
    ELSE LET j == CHOOSE x \in ids : TRUE
         IN  Thousandth(Doc.rows[j].qty) + TotalThousandths(ids \ {j})

\* the absolute value of the signed sum of the quantities of the records ids
AbsTotal(ids) ==
    IF TotalThousandths(ids) < 0
    THEN Num(FALSE, 0 - TotalThousandths(ids), 3)
    ELSE Num(FALSE, TotalThousandths(ids), 3)

\* record j is an outbound movement: marker in the document type or a
\* negative quantity
Outbound(j) ==
    \/ \E a \in 1..Len(Doc.rows[j].doc_type) :
          Doc.rows[j].doc_type[a] = "Wydanie sprzedazy"
    \/ Thousandth(Doc.rows[j].qty) < 0

\* the records the rows are made of: all of them without a document type
\* column, the outbound ones with it
Retained == {j \in 1..Len(Doc.rows) : Doc.has_doc_type => Outbound(j)}

SharingKey(ids, k) == {j \in ids : GroupKey(Doc.rows[j]) = k}

C3_OutboundExactlyOnce ==
    LET src == Sources IN
    (RowsBuilt /\ Doc.has_doc_type) =>
        /\ \A j \in 1..Len(Doc.rows) :
              Cardinality({i \in 1..Len(Rows) : j \in src[i]})
                 = IF Outbound(j) THEN 1 ELSE 0
        /\ \A i \in 1..Len(Rows) :
              /\ Rows[i].qty = AbsTotal(src[i])
              /\ \A j \in src[i] : ShowsKey(Rows[i], GroupKey(Doc.rows[j]))

\* +2 without the marker is left out; -3 without the marker and +2.5 with it
\* make one row of 0.5
C3_Witness ==
    /\ RowsBuilt
    /\ Doc.has_doc_type
    /\ Len(Doc.rows) = 3
    /\ Doc.rows[1].qty = Num(FALSE, 2, 0) /\ ~Outbound(1)
    /\ Doc.rows[2].qty = Num(TRUE, 3, 0) /\ Doc.rows[2].doc_type = <<"Przyjecie zakupu">>
    /\ Doc.rows[3].qty = Num(FALSE, 25, 1) /\ Outbound(3)
    /\ Len(Rows) = 1
    /\ RowSources(1) = {2, 3}
    /\ Rows[1].qty = Num(FALSE, 5, 1)

\* (name, lot, expiry) of a before that of b, absent expiry last
TripleLess(a, b) ==
    \/ StrLess(a.name, b.name)
    \/ a.name = b.name /\ StrLess(a.lot_no, b.lot_no)
    \/ a.name = b.name /\ a.lot_no = b.lot_no /\ a.expiry # None
       /\ (b.expiry = None \/ DateLess(a.expiry, b.expiry))

NoSurroundingWhitespace ==
    \A j \in Retained :
        /\ Strip(Doc.rows[j].name) = Doc.rows[j].name
        /\ Strip(Doc.rows[j].lot_no) = Doc.rows[j].lot_no

C5_NoExpiryOwnGroup ==
    LET src == Sources IN
    RowsBuilt =>
        \A j \in Retained :
            Doc.rows[j].expiry = None =>
                /\ Cardinality({i \in 1..Len(Rows) : j \in src[i]}) = 1
                /\ \A i \in 1..Len(Rows) :
                      j \in src[i] =>
                          /\ Rows[i].expiry = None
                          /\ ShowsKey(Rows[i], GroupKey(Doc.rows[j]))
                          /\ Rows[i].qty = AbsTotal(src[i])
                          /\ \A b \in src[i] : Doc.rows[b].expiry = None
                /\ \A b \in Retained :
                      (/\ Doc.rows[b].expiry # None
                       /\ Doc.rows[b].name = Doc.rows[j].name
                       /\ Doc.rows[b].lot_no = Doc.rows[j].lot_no)
                         => \E i1, i2 \in 1..Len(Rows) :
                               /\ i1 # i2
                               /\ j \in src[i1]
                               /\ b \in src[i2]
                               /\ Rows[i2].expiry = Doc.rows[b].expiry

\* the same name and lot once with 2026-01-01 and once without expiry: two
\* rows, the one without expiry last
C5_Witness ==
    /\ RowsBuilt
    /\ Len(Doc.rows) = 2
    /\ Doc.rows[1].expiry = None
    /\ Doc.rows[2].expiry = Date(2026, 1, 1)
    /\ Doc.rows[1].name = Doc.rows[2].name
    /\ Doc.rows[1].lot_no = Doc.rows[2].lot_no
    /\ Len(Rows) = 2
    /\ Rows[1].expiry = Date(2026, 1, 1)
    /\ Rows[2].expiry = None

-----------------------------------------------------------------------------
(* The application: startup load, upload with reload, preview *)

KeyError == [raises |-> "KeyError"]

\* the keys of CSV_COLUMNS the pipeline reads
Columns ==
    {"date_posted", "doc_type", "doc_no", "item_no", "source_no", "name",
     "lot_no", "expiry", "qty"}

\* a mutant of load_csv: no record is filtered out
load_csv_unfiltered(file) ==
    IF file.cols = {} THEN EmptyFrame
    ELSE IF file.rows = <<>> THEN file
    ELSE IF ~({"qty", "expiry", "date_posted"} \subseteq file.cols) THEN KeyError
    ELSE [cols |-> file.cols \cup {"uom"},
          rows |-> [i \in 1..Len(file.rows) |->
                      [c \in file.cols \cup {"uom"} |->
                          IF c = "qty" THEN to_float(file.rows[i].qty)
                          ELSE IF c = "expiry" THEN parse_date_any(file.rows[i].expiry)
                          ELSE IF c = "date_posted" THEN parse_date_any(file.rows[i].date_posted)
                          ELSE IF c = "uom" THEN <<>>
                          ELSE file.rows[i][c]]]]

\* load_csv: a file of zero bytes gives an empty frame, a table without rows
\* is returned as read, a missing quantity or date column raises; quantities
\* and dates are parsed, the unit starts blank, and the records whose document
\* number contains "/KG/" or whose name starts with "OP-" are dropped
load_csv(file) ==
    IF file.cols = {} THEN EmptyFrame
    ELSE IF file.rows = <<>> THEN file
    ELSE IF ~({"qty", "expiry", "date_posted"} \subseteq file.cols) THEN KeyError
    ELSE LET parsed == [i \in 1..Len(file.rows) |->
                          [c \in file.cols \cup {"uom"} |->
                              IF c = "qty" THEN to_float(file.rows[i].qty)
                              ELSE IF c = "expiry" THEN parse_date_any(file.rows[i].expiry)
                              ELSE IF c = "date_posted" THEN parse_date_any(file.rows[i].date_posted)
                              ELSE IF c = "uom" THEN <<>>
                              ELSE file.rows[i][c]]]
             NotKg(r) == "doc_no" \in file.cols => ~Contains(r.doc_no, <<"/", "K", "G", "/">>)
             NotOp(r) == "name" \in file.cols => ~StartsWith(r.name, <<"O", "P", "-">>)
         IN  [cols |-> file.cols \cup {"uom"},
              rows |-> SelectSeq(SelectSeq(parsed, NotKg), NotOp)]

\* a mutant of apply_uom_lookup: the unit is replaced by what the lookup has,
\* blank when it has nothing
apply_uom_lookup_replace(df, lookup) ==
    IF lookup = EmptyDict \/ "item_no" \notin df.cols \/ "uom" \notin df.cols
    THEN df
    ELSE [df EXCEPT !.rows =
            [i \in 1..Len(df.rows) |->
                LET code == Upper(Strip(df.rows[i].item_no))
                IN  [df.rows[i] EXCEPT !.uom = DictGet(lookup, code, <<>>)]]]

\* apply_uom_lookup: the unit of a record becomes the non-empty unit the lookup
\* has for its trimmed, uppercased item code
apply_uom_lookup(df, lookup) ==
    IF lookup = EmptyDict \/ "item_no" \notin df.cols \/ "uom" \notin df.cols
    THEN df
    ELSE [df EXCEPT !.rows =
            [i \in 1..Len(df.rows) |->
                LET code == Upper(Strip(df.rows[i].item_no))
                IN  IF code \in DOMAIN lookup /\ lookup[code] # <<>>
                    THEN [df.rows[i] EXCEPT !.uom = lookup[code]]
                    ELSE df.rows[i]]]

\* sorted(S) for a set of str
RECURSIVE SortedStrs(_)
SortedStrs(S) ==
    IF S = {} THEN <<>>
    ELSE LET s == CHOOSE x \in S : \A y \in S : x = y \/ StrLess(x, y)
         IN  <<s>> \o SortedStrs(S \ {s})

\* unique_sources
unique_sources(df) ==
    IF df.rows = <<>> THEN <<>>
    ELSE IF "source_no" \notin df.cols THEN <<>>
    ELSE SortedStrs({Strip(df.rows[i].source_no) : i \in 1..Len(df.rows)} \ {<<>>})

\* _reload_data, also the load at import: the table is read from the file,
\* the units are overlaid, the sources are listed; an exception of load_csv
\* leaves DF and SOURCES as they were
reload_data(file, unit_files, old_df, old_sources) ==
    LET loaded == load_csv(file)
        df == apply_uom_lookup(loaded, load_uom_lookup(unit_files))
    IN  IF loaded = KeyError
        THEN [raised |-> TRUE, DF |-> old_df, SOURCES |-> old_sources]
        ELSE [raised |-> FALSE, DF |-> df, SOURCES |-> unique_sources(df)]

\* filter_by_sources
filter_by_sources(df, sources) ==
    [df EXCEPT !.rows = SelectSeq(df.rows, LAMBDA r : r.source_no \in sources)]

DigitChars == <<"0", "1", "2", "3", "4", "5", "6", "7", "8", "9">>

TwoDigits(n) == <<DigitChars[((n \div 10) % 10) + 1], DigitChars[(n % 10) + 1]>>

\* ReportBuilder._format_date_pl: strftime("%d.%m.%Y") of a Timestamp, "" of
\* anything else
format_date_pl(ts) ==
    IF ts = None THEN <<>>
    ELSE TwoDigits(ts.day) \o <<".">> \o TwoDigits(ts.month) \o <<".">>
         \o TwoDigits(ts.year \div 100) \o TwoDigits(ts.year % 100)

\* a mutant of FirstNot: the last such element is taken
LastNot(s, skip, default) ==
    IF \E i \in 1..Len(s) : s[i] # skip
    THEN s[CHOOSE i \in 1..Len(s) : s[i] # skip /\ \A j \in (i + 1)..Len(s) : s[j] = skip]
    ELSE default

\* next((v for v in s if v is not skip), default)
FirstNot(s, skip, default) ==
    IF \E i \in 1..Len(s) : s[i] # skip
    THEN s[CHOOSE i \in 1..Len(s) : s[i] # skip /\ \A j \in 1..(i - 1) : s[j] = skip]
    ELSE default

\* ReportBuilder.infer_doc_header, the date: the first posting date of the
\* document that is a Timestamp; without one the first non-empty str(v), which
\* is the text "NaT" or "None" of an absent date, goes to _parse_date_any; the
\* date is formatted, and "" is returned without one
doc_date(df_doc) ==
    IF "date_posted" \notin df_doc.cols THEN <<>>
    ELSE LET dt == FirstNot([i \in 1..Len(df_doc.rows) |-> df_doc.rows[i].date_posted],
                            None, None)
             raw == IF df_doc.rows = <<>> THEN [kind |-> "empty"] ELSE [kind |-> "words"]
         IN  format_date_pl(IF dt = None THEN parse_date_any(raw) ELSE dt)

\* ReportBuilder.infer_doc_header, the number: the first non-empty trimmed
\* document number
doc_number(df_doc) ==
    IF "doc_no" \notin df_doc.cols THEN <<>>
    ELSE FirstNot([i \in 1..Len(df_doc.rows) |-> Strip(df_doc.rows[i].doc_no)],
                  <<>>, <<>>)

\* ReportBuilder.infer_doc_header
infer_doc_header(df_doc) == <<doc_number(df_doc), doc_date(df_doc)>>

\* preview: the first non-empty trimmed source number of the document, which
\* CUSTOMER_NAMES.get(source_no, source_no) returns when no name is on file
customer_name(df_doc) ==
    IF "source_no" \notin df_doc.cols THEN <<>>
    ELSE FirstNot([i \in 1..Len(df_doc.rows) |-> Strip(df_doc.rows[i].source_no)],
                  <<>>, <<>>)

\* the columns build_rows_for_document groups and sums
RowColumns == {"name", "lot_no", "expiry", "item_no", "uom", "qty"}

\* the document handed to build_rows_for_document
AsDoc(df_doc) == [has_doc_type |-> "doc_type" \in df_doc.cols, rows |-> df_doc.rows]

\* the item code of the product whose expiry is never shown
SentinelCode == <<"z", "0", "0", "1", "5", "5">>

\* preview, exp_str: "nie dotyczy" for the sentinel item code, else the expiry
\* formatted
preview_expiry(r) ==
    IF Lower(r.item_no) = SentinelCode THEN <<"nie dotyczy">>
    ELSE IF r.expiry # None THEN format_date_pl(r.expiry) ELSE <<>>

\* preview, rows_data: the row as the page shows it; "records" lists the
\* records of DF summed into the row
row_data(r, g, df_doc, tieUp) ==
    [lp |-> r.lp,
     name |-> r.name,
     qty |-> format_qty_pl(r.qty, tieUp),
     uom |-> r.uom,
     lot_no |-> r.lot_no,
     expiry |-> preview_expiry(r),
     item_no |-> r.item_no,
     records |-> {df_doc.rows[j] : j \in g.members}]

\* preview, the body of the loop over df_sources.groupby(doc_col)
document(doc_no, df_doc, tieUp) ==
    LET rows == build_rows_for_document(AsDoc(df_doc))
        lines == sorted_groups(AsDoc(df_doc))
    IN  [doc_no |-> doc_no,
         doc_date |-> doc_date(df_doc),
         customer_name |-> customer_name(df_doc),
         rows |-> [i \in 1..Len(rows) |-> row_data(rows[i], lines[i], df_doc, tieUp)]]

\* preview: the documents of the selected sources in the order of their
\* document numbers; a missing column raises
preview(df, selected, tieUp) ==
    IF ~({"source_no", "doc_no"} \subseteq df.cols)
    THEN [raised |-> TRUE, documents |-> <<>>]
    ELSE LET df_sources == filter_by_sources(df, selected)
             doc_nos == SortedStrs({df_sources.rows[i].doc_no : i \in 1..Len(df_sources.rows)})
         IN  IF doc_nos # <<>> /\ ~(RowColumns \subseteq df.cols)
             THEN [raised |-> TRUE, documents |-> <<>>]
             ELSE [raised |-> FALSE,
                   documents |->
                      [d \in 1..Len(doc_nos) |->
                         document(doc_nos[d],
                                  [df_sources EXCEPT !.rows =
                                      SelectSeq(df_sources.rows, LAMBDA r : r.doc_no = doc_nos[d])],
                                  tieUp)]]

\* a raw record of the canonical CSV
Raw(doc_no, name, source_no, qty, doc_type, expiry) ==
    [date_posted |-> [kind |-> "numeric", parts |-> <<12, 1, 2026>>, sep |-> "."],
     doc_type |-> doc_type, doc_no |-> doc_no, item_no |-> <<"z", "0", "1", "2", "3", "4">>,
     source_no |-> source_no, name |-> name, lot_no |-> <<"L", "1">>,
     expiry |-> expiry, qty |-> qty]

\* the records of the uploaded tables: one that is kept, one of a "/KG/"
\* document, one of an "OP-" product, and one near both markers that is kept
RawRecs == {
    Raw(<<"W", "D", "/", "1">>, <<"A">>, <<"S", "1">>, <<"-", "5">>, OutboundMarker,
        [kind |-> "numeric", parts |-> <<3, 1, 2026>>, sep |-> "/"]),
    Raw(<<"W", "D", "/", "K", "G", "/", "1">>, <<"A">>, <<"S", "1">>, <<"-", "5">>, OutboundMarker,
        [kind |-> "numeric", parts |-> <<3, 1, 2026>>, sep |-> "/"]),
    Raw(<<"W", "D", "/", "1">>, <<"O", "P", "-", "A">>, <<"S", "1">>, <<"-", "5">>, OutboundMarker,
        [kind |-> "numeric", parts |-> <<3, 1, 2026>>, sep |-> "/"]),
    Raw(<<"W", "D", "/", "k", "g", "/", "2">>, <<SP>> \o <<"O", "P", "-", "B">>, <<"S", "2">>, <<"-", "2", ",", "5">>, <<"Przyjecie zakupu">>, [kind |-> "empty"]) }

Restrict(r, cols) == [c \in cols |-> r[c]]

\* the tables on disk or in an upload: every column present, or one column
\* missing in a table of at most one row
CsvFiles ==
    {[cols |-> Columns, rows |-> rows] : rows \in SeqsUpTo(RawRecs, MaxCsvRows)}
    \cup {[cols |-> Columns \ {c}, rows |-> [i \in 1..Len(rows) |-> Restrict(rows[i], Columns \ {c})]] :
             c \in {"doc_type", "qty", "doc_no", "name"}, rows \in SeqsUpTo(RawRecs, 1)}

\* the unit reference files the application may find
UomFiles ==
    {<<NoFile, NoFile>>,
     <<Table(TRUE, TRUE, <<[Nr |-> <<"1", "2", "3", "4">>, UOM |-> <<"k", "i", "l", "o", "g", "r", "a", "m">>]>>), NoFile>>}

\* POST /upload: no file, an extension that is not supported, a file that
\* cannot be read, or a table as .csv or .xlsx
Uploads ==
    {[kind |-> "none"], [kind |-> "unsupported"], [kind |-> "unreadable"]}
    \cup {[kind |-> "csv", table |-> f] : f \in CsvFiles}
    \cup {[kind |-> "xlsx", table |-> f] : f \in {g \in CsvFiles : Len(g.rows) = 1 /\ g.cols = Columns}}

\* GET /preview?sources=...: the selected source numbers
Selections == SUBSET {<<"S", "1">>, <<"S", "2">>}

\* the module is imported: the data is loaded once
Init ==
    /\ call = [fn |-> "app", arg |-> <<>>]
    /\ ret = <<>>
    /\ input_csv \in CsvFiles \cup {EmptyFrame}
    /\ uom_files \in UomFiles
    /\ LET loaded == reload_data(input_csv, uom_files, EmptyFrame, <<>>)
       IN  /\ ~loaded.raised
           /\ DF = loaded.DF
           /\ SOURCES = loaded.SOURCES
    /\ documents = <<>>
    /\ reload_pc = "idle"
    /\ InitPages

\* upload(): the table is written to INPUT_CSV and _reload_data follows; every
\* other request, and a table pandas finds empty, changes nothing
Upload(u) ==
    /\ call.fn = "app"
    /\ IF u.kind \in {"csv", "xlsx"} /\ u.table.cols # {}
       THEN LET reloaded == reload_data(u.table, uom_files, DF, SOURCES)
            IN  /\ input_csv' = u.table
                /\ DF' = reloaded.DF
                /\ SOURCES' = reloaded.SOURCES
       ELSE UNCHANGED <<input_csv, DF, SOURCES>>
    /\ documents' = <<>>
    /\ UNCHANGED <<uom_files, reload_pc, pageVars, fnVars>>

\* preview(): the documents of the selected sources; no selection redirects
\* and an exception answers without documents
Preview(selected) ==
    /\ call.fn = "app"
    /\ \E tieUp \in BOOLEAN :
          documents' = IF selected = {} THEN <<>>
                       ELSE preview(DF, selected, tieUp).documents
    /\ UNCHANGED <<input_csv, uom_files, DF, SOURCES, reload_pc, pageVars, fnVars>>

Next ==
    \/ \E u \in Uploads : Upload(u)
    \/ \E selected \in Selections : Preview(selected)

Spec == Init /\ [][Next]_vars

-----------------------------------------------------------------------------
(* Claim on the loaded table *)

\* the record is of a "/KG/" document or of an "OP-" product
Excluded(r) ==
    \/ "doc_no" \in DOMAIN r
       /\ \E i \in 1..(Len(r.doc_no) - 3) : SubSeq(r.doc_no, i, i + 3) = <<"/", "K", "G", "/">>
    \/ "name" \in DOMAIN r
       /\ Len(r.name) >= 3 /\ SubSeq(r.name, 1, 3) = <<"O", "P", "-">>

\* C1: at startup and after any uploads and reloads, DF holds no record whose
\* document number contains "/KG/" and none whose name starts with "OP-", and
\* no row of a previewed document is summed from such a record.
C1_NoExcludedRecord ==
    call.fn = "app" =>
        /\ \A i \in 1..Len(DF.rows) : ~Excluded(DF.rows[i])
        /\ \A d \in 1..Len(documents) : \A i \in 1..Len(documents[d].rows) :
              \A r \in documents[d].rows[i].records : ~Excluded(r)

\* a table of a "/KG/" record and of a record of document "WD/kg/2" named
\* " OP-B" is on disk; DF holds the second alone and the preview shows one row
\* summed from it
C1_Witness ==
    /\ call.fn = "app"
    /\ Len(input_csv.rows) = 2
    /\ Contains(input_csv.rows[1].doc_no, <<"/", "K", "G", "/">>)
    /\ input_csv.rows[2].doc_no = <<"W", "D", "/", "k", "g", "/", "2">>
    /\ input_csv.rows[2].name = <<SP, "O", "P", "-", "B">>
    /\ Len(DF.rows) = 1
    /\ DF.rows[1].doc_no = input_csv.rows[2].doc_no
    /\ Len(documents) = 1
    /\ Len(documents[1].rows) = 1
    /\ documents[1].rows[1].name = <<"O", "P", "-", "B">>
    /\ documents[1].rows[1].records = {DF.rows[1]}

-----------------------------------------------------------------------------
(* Further claims on the unit lookup *)

\* row j is the last row of the table with the code of row i
LastRowOf(table, i, j) ==
    /\ table[j].Nr = table[i].Nr
    /\ \A k \in (j + 1)..Len(table) : table[k].Nr # table[i].Nr

\* C11: every non-empty code that has a row in the reference table is a key of
\* the mapping and yields the unit of the last row with that code, whatever
\* rows deriving the same code as an alias stand before or after it.
C11_ExplicitEntryWins ==
    LookupBuilt =>
        LET table == RefTable
        IN  \A i \in 1..Len(table) :
                table[i].Nr # <<>> =>
                    /\ table[i].Nr \in DOMAIN ret[1]
                    /\ \E j \in i..Len(table) :
                          /\ LastRowOf(table, i, j)
                          /\ ret[1][table[i].Nr] = table[j].UOM

\* the table Z01234 -> L, 1234 -> kilogram: the row Z01234 derives 1234 before
\* the row 1234 comes, and 1234 yields KG while Z01234 keeps L
C11_Witness ==
    /\ LookupBuilt
    /\ Len(RefTable) = 2
    /\ RefTable[1] = [Nr |-> <<"Z", "0", "1", "2", "3", "4">>, UOM |-> <<"L">>]
    /\ RefTable[2] = [Nr |-> <<"1", "2", "3", "4">>, UOM |-> <<"K", "G">>]
    /\ ret[1][<<"1", "2", "3", "4">>] = <<"K", "G">>
    /\ ret[1][<<"Z", "0", "1", "2", "3", "4">>] = <<"L">>

LookupReturned == call.fn = "load_uom_lookup" /\ Len(ret) = 1

\* C12 as stated: when the file at the path passed does not exist, the
\* mapping returned is empty.
C12_MissingFileEmptyMapping ==
    (LookupReturned /\ ~call.arg[1].exists) => ret[1] = EmptyDict

\* C12 as amended: when no file exists at the path passed nor at any fallback
\* location, the mapping returned is empty; when the file at the path passed is
\* missing and a fallback location holds a table, the mapping is built from
\* the first such table.
C12_NoFileAnywhereEmptyMapping ==
    LookupReturned =>
        /\ (\A i \in 1..Len(call.arg) : ~call.arg[i].exists) => ret[1] = EmptyDict
        /\ (~call.arg[1].exists /\ call.arg[2] = FallbackTable)
              => /\ DOMAIN ret[1] = {<<"1", "2", "3", "4">>, <<"Z", "0", "1", "2", "3", "4">>}
                 /\ ret[1][<<"1", "2", "3", "4">>] = <<"S", "Z", "T">>

\* no file at the path passed nor at a fallback location: the empty mapping
C12_Witness ==
    /\ LookupReturned
    /\ call.arg = <<NoFile, NoFile>>
    /\ ret[1] = EmptyDict

\* the table read has a header that is "nr" or "nr zapasu" once trimmed and
\* lowercased
CodeColumnFound ==
    \E i \in 1..Len(chosen_file(call.arg).headers) :
        LET h == Lower(Strip(chosen_file(call.arg).headers[i]))
        IN  h = <<"n", "r">> \/ h = <<"n", "r", " ", "z", "a", "p", "a", "s", "u">>

\* the table read has a header that contains "jednostka" or starts with
\* "podst." or "podstawowa" once trimmed and lowercased
UnitColumnFound ==
    \E i \in 1..Len(chosen_file(call.arg).headers) :
        LET h == Lower(Strip(chosen_file(call.arg).headers[i]))
        IN  \/ \E k \in 0..(Len(h) - 9) : SubSeq(h, k + 1, k + 9) = <<"j", "e", "d", "n", "o", "s", "t", "k", "a">>
            \/ Len(h) >= 6 /\ SubSeq(h, 1, 6) = <<"p", "o", "d", "s", "t", ".">>
            \/ Len(h) >= 10 /\ SubSeq(h, 1, 10) = <<"p", "o", "d", "s", "t", "a", "w", "o", "w", "a">>

\* C13: when the file found cannot be read, or no code column or no unit
\* column is identified among its headers, the mapping returned is empty; a
\* mapping that is not empty has the code of every row with a non-empty code
\* among its keys, so it is never partially built.
C13_EmptyMappingOnFailure ==
    (LookupReturned /\ chosen_file(call.arg).exists) =>
        /\ ~chosen_file(call.arg).readable => ret[1] = EmptyDict
        /\ (chosen_file(call.arg).readable /\ ~(CodeColumnFound /\ UnitColumnFound))
              => ret[1] = EmptyDict
        /\ (chosen_file(call.arg).readable /\ ret[1] # EmptyDict)
              => LET table == RefTable
                 IN  \A i \in 1..Len(table) :
                        table[i].Nr # <<>> => table[i].Nr \in DOMAIN ret[1]

\* a table with the headers "nr zapasu" and "Jm" and the row 1234 -> L: no unit
\* column is identified and the mapping is empty
C13_Witness ==
    /\ LookupReturned
    /\ chosen_file(call.arg).exists /\ chosen_file(call.arg).readable
    /\ chosen_file(call.arg).headers = <<<<"n", "r", " ", "z", "a", "p", "a", "s", "u">>, <<"J", "m">>>>
    /\ Len(chosen_file(call.arg).rows) = 1
    /\ ret[1] = EmptyDict

-----------------------------------------------------------------------------
(* The unit overlay *)

\* records of the tables handed to apply_uom_lookup: item code and unit
OverlayRecs ==
    [item_no : {<<"Z", "0", "1", "2", "3", "4">>, <<" ", "z", "0", "1", "2", "3", "4">>, <<"1", "2", "3", "4">>, <<"9", "9", "9", "9">>}, uom : {<<>>, <<"S", "Z", "T">>}]

\* the tables: both columns present, or one of them missing in a table of at
\* most one record
OverlayFrames ==
    {[cols |-> {"item_no", "uom"}, rows |-> rows] : rows \in SeqsUpTo(OverlayRecs, MaxOverlayRows)}
    \cup {[cols |-> {c}, rows |-> [i \in 1..Len(rows) |-> Restrict(rows[i], {c})]] :
             c \in {"item_no", "uom"}, rows \in SeqsUpTo(OverlayRecs, 1)}

\* the mappings: empty, one unit, a blank unit beside a unit
OverlayLookups ==
    {EmptyDict,
     DictSet(EmptyDict, <<"Z", "0", "1", "2", "3", "4">>, <<"K", "G">>),
     DictSet(DictSet(EmptyDict, <<"Z", "0", "1", "2", "3", "4">>, <<>>), <<"1", "2", "3", "4">>, <<"L">>)}

InitOverlay ==
    /\ InitApp
    /\ ret = <<>>
    /\ \E df \in OverlayFrames, lookup \in OverlayLookups :
          call = [fn |-> "apply_uom_lookup", arg |-> [df |-> df, lookup |-> lookup]]

\* DF = apply_uom_lookup(DF, lookup)
ApplyUomLookup ==
    /\ call.fn = "apply_uom_lookup" /\ ret = <<>>
    /\ ret' = <<apply_uom_lookup(call.arg.df, call.arg.lookup)>>
    /\ UNCHANGED <<call, appVars>>

NextOverlay == ApplyUomLookup

SpecOverlay == InitOverlay /\ [][NextOverlay]_vars

OverlayDone == call.fn = "apply_uom_lookup" /\ Len(ret) = 1

\* the mapping has a non-empty unit for the trimmed, uppercased item code of
\* the record
HasUnitFor(lookup, r) ==
    /\ "item_no" \in DOMAIN r
    /\ \E k \in DOMAIN lookup :
          /\ k = [i \in 1..Len(Strip(r.item_no)) |-> UpperChar(Strip(r.item_no)[i])]
          /\ lookup[k] # <<>>

\* C14: the table returned has the records of the table handed in, in order;
\* a record whose trimmed, uppercased item code has a non-empty unit in the
\* mapping carries that unit and is otherwise unchanged, every other record is
\* exactly as it was; with the empty mapping the table is returned as it was.
C14_Overlay ==
    OverlayDone =>
        LET df == call.arg.df
            lookup == call.arg.lookup
            out == ret[1]
        IN  /\ out.cols = df.cols
            /\ Len(out.rows) = Len(df.rows)
            /\ \A i \in 1..Len(df.rows) :
                  IF "uom" \in df.cols /\ HasUnitFor(lookup, df.rows[i])
                  THEN /\ out.rows[i].uom = lookup[Upper(Strip(df.rows[i].item_no))]
                       /\ out.rows[i].item_no = df.rows[i].item_no
                  ELSE out.rows[i] = df.rows[i]
            /\ lookup = EmptyDict => out = df

\* with the mapping <<"Z", "0", "1", "2", "3", "4">> -> <<"K", "G">>, the record " z01234" with a blank unit gets
\* <<"K", "G">> and the record 9999 keeps its unit <<"S", "Z", "T">>
C14_Witness ==
    /\ OverlayDone
    /\ call.arg.lookup = DictSet(EmptyDict, <<"Z", "0", "1", "2", "3", "4">>, <<"K", "G">>)
    /\ call.arg.df.rows = <<[item_no |-> <<" ", "z", "0", "1", "2", "3", "4">>, uom |-> <<>>],
                            [item_no |-> <<"9", "9", "9", "9">>, uom |-> <<"S", "Z", "T">>]>>
    /\ ret[1].rows = <<[item_no |-> <<" ", "z", "0", "1", "2", "3", "4">>, uom |-> <<"K", "G">>],
                       [item_no |-> <<"9", "9", "9", "9">>, uom |-> <<"S", "Z", "T">>]>>

-----------------------------------------------------------------------------
(* The document header *)

\* records of the documents handed to infer_doc_header: document number and
\* posting date as load_csv leaves them
HeaderRecs ==
    [doc_no : {<<>>, <<SP>>, <<" ", "W", "D", "/", "1", " ">>, <<"W", "D", "/", "2">>},
     date_posted : {None, Date(2026, 12, 1), Date(2025, 3, 7)}]

\* the documents: both columns present, or one of them missing in a document
\* of at most one record
HeaderFrames ==
    {[cols |-> {"doc_no", "date_posted"}, rows |-> rows] : rows \in SeqsUpTo(HeaderRecs, MaxHeaderRows)}
    \cup {[cols |-> {c}, rows |-> [i \in 1..Len(rows) |-> Restrict(rows[i], {c})]] :
             c \in {"doc_no", "date_posted"}, rows \in SeqsUpTo(HeaderRecs, 1)}

InitHeader ==
    /\ InitApp
    /\ ret = <<>>
    /\ \E df \in HeaderFrames : call = [fn |-> "infer_doc_header", arg |-> df]

\* REPORTER.infer_doc_header(df_doc)
InferDocHeader ==
    /\ call.fn = "infer_doc_header" /\ ret = <<>>
    /\ ret' = <<infer_doc_header(call.arg)>>
    /\ UNCHANGED <<call, appVars>>

NextHeader == InferDocHeader

SpecHeader == InitHeader /\ [][NextHeader]_vars

HeaderDone == call.fn = "infer_doc_header" /\ Len(ret) = 1

\* the text is DD.MM.YYYY of the date
IsDDMMYYYY(text, d) ==
    /\ Len(text) = 10
    /\ text[3] = "." /\ text[6] = "."
    /\ AllDigits(SubSeq(text, 1, 2)) /\ DigitsVal(SubSeq(text, 1, 2)) = d.day
    /\ AllDigits(SubSeq(text, 4, 5)) /\ DigitsVal(SubSeq(text, 4, 5)) = d.month
    /\ AllDigits(SubSeq(text, 7, 10)) /\ DigitsVal(SubSeq(text, 7, 10)) = d.year

\* C15: the number returned is the trimmed document number of the first
\* record whose document number is not blank, the date returned is DD.MM.YYYY
\* of the posting date of the first record that has one, and each is the empty
\* string when there is no such record or no such column.
C15_FirstNumberFirstDate ==
    HeaderDone =>
        LET df == call.arg
            numbered == IF "doc_no" \in df.cols
                        THEN {i \in 1..Len(df.rows) : Strip(df.rows[i].doc_no) # <<>>}
                        ELSE {}
            dated == IF "date_posted" \in df.cols
                     THEN {i \in 1..Len(df.rows) : df.rows[i].date_posted # None}
                     ELSE {}
        IN  /\ IF numbered = {} THEN ret[1][1] = <<>>
               ELSE \E i \in numbered :
                       /\ \A j \in numbered : i <= j
                       /\ ret[1][1] = Strip(df.rows[i].doc_no)
            /\ IF dated = {} THEN ret[1][2] = <<>>
               ELSE \E i \in dated :
                       /\ \A j \in dated : i <= j
                       /\ IsDDMMYYYY(ret[1][2], df.rows[i].date_posted)

\* records (blank, no date), (" WD/1 ", 2025-03-07), (WD/2, 2026-12-01) give
\* WD/1 and 07.03.2025
C15_Witness ==
    /\ HeaderDone
    /\ Len(call.arg.rows) = 3
    /\ call.arg.rows[1] = [doc_no |-> <<SP>>, date_posted |-> None]
    /\ call.arg.rows[2] = [doc_no |-> <<" ", "W", "D", "/", "1", " ">>, date_posted |-> Date(2025, 3, 7)]
    /\ call.arg.rows[3] = [doc_no |-> <<"W", "D", "/", "2">>, date_posted |-> Date(2026, 12, 1)]
    /\ ret[1] = <<<<"W", "D", "/", "1">>, <<"0", "7", ".", "0", "3", ".", "2", "0", "2", "5">>>>

-----------------------------------------------------------------------------
(* Further claims on the display of quantities *)

QtyFormatted == call.fn = "format_qty_pl" /\ Len(ret) = 1

\* the part of a text before its first occurrence of c
BeforeFirst(s, c) ==
    IF HasChar(s, c)
    THEN SubSeq(s, 1, (CHOOSE i \in 1..Len(s) : s[i] = c /\ \A j \in 1..(i - 1) : s[j] # c) - 1)
    ELSE s

\* digits in groups of three counted from the right, with sep between the
\* groups and nowhere else
GroupedBy(s, sep) ==
    /\ s # <<>>
    /\ Len(s) % 4 # 0
    /\ \A i \in 1..Len(s) :
          IF (Len(s) - i + 1) % 4 = 0 THEN s[i] = sep ELSE s[i] \in Digits

\* C16: the display string never contains "." or "_"; its whole part is
\* digits in groups of three separated by the narrow no-break space; for an
\* integer it is that integer and nothing follows the whole part; otherwise
\* what follows is nothing, or a "," and 1 to 3 digits the last of which is
\* not 0.
C16_PolishFormat ==
    QtyFormatted =>
        LET q     == call.arg
            s     == ret[1]
            minus == s # <<>> /\ Head(s) = "-"
            body  == IF minus THEN Tail(s) ELSE s
            whole == BeforeFirst(body, ",")
            frac  == SubSeq(body, Len(whole) + 2, Len(body))
        IN  /\ ~HasChar(s, ".") /\ ~HasChar(s, "_")
            /\ GroupedBy(whole, NNBSP)
            /\ IF q.e = 0
               THEN /\ body = whole
                    /\ DigitsVal(RemoveAll(whole, NNBSP)) = q.m
                    /\ minus = q.neg
               ELSE \/ body = whole
                    \/ /\ body = whole \o <<",">> \o frac
                       /\ Len(frac) \in 1..3
                       /\ AllDigits(frac)
                       /\ frac[Len(frac)] # "0"

\* -1999.25 is displayed "-1 999,25" (the space is the narrow no-break space)
C16_Witness ==
    /\ QtyFormatted
    /\ call.arg = Num(TRUE, 199925, 2)
    /\ ret[1] = <<"-", "1", NNBSP, "9", "9", "9", ",", "2", "5">>

-----------------------------------------------------------------------------
(* The final documents: rows of the preview page posted back and printed *)

\* a mutant of pdf_expiry: "nie dotyczy" only where the expiry is absent
pdf_expiry_when_absent(r) ==
    IF Lower(r.item_no) = SentinelCode /\ r.expiry = None
    THEN <<"<i>", "nie dotyczy", "</i>">>
    ELSE format_date_pl(r.expiry)

\* ReportBuilder.generate_pdf, exp_str: the markup of the expiry cell
pdf_expiry(r) ==
    IF Lower(r.item_no) = SentinelCode THEN <<"<i>", "nie dotyczy", "</i>">>
    ELSE format_date_pl(r.expiry)

\* reportlab's Paragraph: the text printed for a markup, its italic tags
\* switching the face
paragraph_text(markup) == SelectSeq(markup, LAMBDA c : c \notin {"<i>", "</i>"})

\* ReportBuilder.generate_pdf: the cells printed for a row
pdf_row(r, tieUp) ==
    [lp |-> r.lp,
     name |-> paragraph_text(r.name),
     qty |-> paragraph_text(format_qty_pl(r.qty, tieUp)),
     uom |-> paragraph_text(r.uom),
     lot_no |-> paragraph_text(r.lot_no),
     expiry |-> paragraph_text(pdf_expiry(r))]

\* the date cell a text is: three numbers of at most four digits between two
\* equal separators are "numeric" (the numbers of more than two digits here
\* are the years, all above 99), other text with no digit is "words"
date_cell(text) ==
    LET seps == {i \in 1..Len(text) : text[i] \in DateSeps}
    IN  IF text = <<>> THEN [kind |-> "empty"]
        ELSE IF Cardinality(seps) = 2
        THEN LET i == CHOOSE i \in seps : \A j \in seps : i <= j
                 j == CHOOSE j \in seps : \A k \in seps : k <= j
                 a == SubSeq(text, 1, i - 1)
                 b == SubSeq(text, i + 1, j - 1)
                 c == SubSeq(text, j + 1, Len(text))
             IN  IF /\ text[i] = text[j]
                    /\ \A part \in {a, b, c} : part # <<>> /\ AllDigits(part)
                 THEN [kind |-> "numeric",
                       parts |-> <<DigitsVal(a), DigitsVal(b), DigitsVal(c)>>,
                       sep |-> text[i]]
                 ELSE [kind |-> "words"]
        ELSE [kind |-> "words"]

\* a mutant of final_qty: the display string is read as a quantity cell of
\* the input table is
final_qty_as_cell(qty) == to_float(qty)

\* generate_final, qty: narrow no-break spaces removed, commas made points,
\* the text stripped and given to float(); 0.0 for no text and on an exception
final_qty(qty) ==
    LET qty_str == Strip(ReplaceChar(RemoveAll(qty, NNBSP), ",", "."))
    IN  IF qty_str = <<>> \/ float(qty_str) = ValueError THEN Zero
        ELSE float(qty_str)

\* generate_final, expiry: the stripped text given to _parse_date_any, None
\* for no text
final_expiry(expiry) ==
    IF Strip(expiry) = <<>> THEN None
    ELSE parse_date_any(date_cell(Strip(expiry)))

\* generate_final: the ReportRow made of a row of the posted document
final_row(r) ==
    [lp |-> r.lp,
     name |-> r.name,
     qty |-> final_qty(r.qty),
     uom |-> r.uom,
     lot_no |-> r.lot_no,
     expiry |-> final_expiry(r.expiry),
     item_no |-> r.item_no]

\* the rows regenerated: every quantity with one expiry and one item code,
\* and every expiry and item code with one quantity
RegenWholes == (0..MaxRegenWhole) \cup {999, 1000, 1234, 1234567}

RegenQuantities == {Num(FALSE, w * 1000 + f, 3) : w \in RegenWholes, f \in 0..999}

RegenDates ==
    {None, Date(2025, 3, 7), Date(2026, 12, 1), Date(2026, 3, 13), Date(2026, 5, 5),
     Date(2024, 2, 29), Date(2026, 1, 31), Date(2026, 12, 12)}

RegenItems == {<<"z", "0", "0", "1", "5", "5">>, <<"Z", "0", "0", "1", "5", "5">>, <<"z", "0", "0", "1", "5", "6">>, <<"Z", "0", "1", "2", "3", "4">>}

RegenRow(qty, expiry, item_no) ==
    [lp |-> 1, name |-> <<"A">>, qty |-> qty, uom |-> <<"K", "G">>,
     lot_no |-> <<"L", "1">>, expiry |-> expiry, item_no |-> item_no]

RegenRows ==
    {RegenRow(q, Date(2026, 3, 13), <<"Z", "0", "1", "2", "3", "4">>) : q \in RegenQuantities}
    \cup {RegenRow(Num(FALSE, 25, 1), d, it) : d \in RegenDates, it \in RegenItems}

InitRegen ==
    /\ InitApp
    /\ ret = <<>>
    /\ \E r \in RegenRows, fn \in {"regenerate", "generate_pdf"} :
          call = [fn |-> fn, arg |-> r]

\* preview(): the row of build_rows_for_document as the page receives it
PreviewRow ==
    /\ call.fn = "regenerate" /\ ret = <<>>
    /\ \E tieUp \in BOOLEAN :
          ret' = <<row_data(call.arg, [members |-> {}], [rows |-> <<>>], tieUp)>>
    /\ UNCHANGED <<call, appVars>>

\* generate_final(): the row posted back unedited, made a ReportRow again
GenerateFinalRow ==
    /\ call.fn = "regenerate" /\ Len(ret) = 1
    /\ ret' = Append(ret, final_row(ret[1]))
    /\ UNCHANGED <<call, appVars>>

\* generate_final(): REPORTER.generate_pdf on the rows made
GenerateFinalPdf ==
    /\ call.fn = "regenerate" /\ Len(ret) = 2
    /\ \E tieUp \in BOOLEAN : ret' = Append(ret, pdf_row(ret[2], tieUp))
    /\ UNCHANGED <<call, appVars>>

\* generate_sample: REPORTER.generate_pdf on the rows of
\* build_rows_for_document
GeneratePdf ==
    /\ call.fn = "generate_pdf" /\ ret = <<>>
    /\ \E tieUp \in BOOLEAN : ret' = <<pdf_row(call.arg, tieUp)>>
    /\ UNCHANGED <<call, appVars>>

NextRegen == PreviewRow \/ GenerateFinalRow \/ GenerateFinalPdf \/ GeneratePdf

SpecRegen == InitRegen /\ [][NextRegen]_vars

-----------------------------------------------------------------------------
(* Claims on the final documents *)

\* the item code is z00155 in either case
IsSentinel(item_no) == item_no \in {<<"z", "0", "0", "1", "5", "5">>, <<"Z", "0", "0", "1", "5", "5">>}

\* the text shown for the expiry of a row: "nie dotyczy" for the sentinel,
\* DD.MM.YYYY of the expiry of any other row, nothing when it has none
ExpiryShown(text, r) ==
    IF IsSentinel(r.item_no) THEN text = <<"nie dotyczy">>
    ELSE IF r.expiry = None THEN text = <<>>
    ELSE IsDDMMYYYY(text, r.expiry)

\* C17: the preview row of a row, the PDF cells of a row of
\* build_rows_for_document and the PDF cells of a row posted back all show
\* "nie dotyczy" as expiry when the item code of the row is z00155 in either
\* case, with or without an expiry date, and otherwise the expiry of the row
\* as DD.MM.YYYY, or nothing when the row has none.
C17_SentinelExpiry ==
    /\ (call.fn = "regenerate" /\ Len(ret) >= 1) => ExpiryShown(ret[1].expiry, call.arg)
    /\ (call.fn = "regenerate" /\ Len(ret) = 3) => ExpiryShown(ret[3].expiry, ret[2])
    /\ (call.fn = "generate_pdf" /\ Len(ret) = 1) => ExpiryShown(ret[1].expiry, call.arg)

\* a row of item Z00155 that expires on 2025-03-07 is printed with
\* "nie dotyczy"
C17_Witness ==
    /\ call.fn = "generate_pdf" /\ Len(ret) = 1
    /\ call.arg.item_no = <<"Z", "0", "0", "1", "5", "5">>
    /\ call.arg.expiry = Date(2025, 3, 7)
    /\ ret[1].expiry = <<"nie dotyczy">>

\* the row has gone through preview and generate_final
Regenerated == call.fn = "regenerate" /\ Len(ret) >= 2

\* C18: for every row with an expiry date and an item code other than the
\* sentinel, the row made by generate_final of the unedited preview row has
\* the same expiry date.
C18_ExpiryRoundTrip ==
    (Regenerated /\ ~IsSentinel(call.arg.item_no) /\ call.arg.expiry # None) =>
        ret[2].expiry = call.arg.expiry

\* C19: for every row with a non-negative quantity of at most 3 fractional
\* digits, the row made by generate_final of the unedited preview row has the
\* same quantity.
C19_QuantityRoundTrip ==
    Regenerated => ret[2].qty = call.arg.qty

\* 1234.567 is shown as "1 234,567" (with a narrow no-break space) and comes
\* back as 1234.567; 1.234, shown as "1,234", comes back as 1.234 likewise
C19_Witness ==
    /\ Regenerated
    /\ call.arg.qty = Num(FALSE, 1234567, 3)
    /\ ret[1].qty = <<"1", NNBSP, "2", "3", "4", ",", "5", "6", "7">>
    /\ ret[2].qty = Num(FALSE, 1234567, 3)

-----------------------------------------------------------------------------
(* The reload, line by line, beside a request that reads *)

\* the tables uploaded while requests are served: every column present and at
\* most one record, or no quantity column
ReloadFiles ==
    {[cols |-> Columns, rows |-> rows] : rows \in SeqsUpTo(RawRecs, 1)}
    \cup {[cols |-> Columns \ {"qty"},
           rows |-> <<Restrict(r, Columns \ {"qty"})>>] : r \in RawRecs}

\* the module is imported, then waitress serves the requests on its threads
InitReload ==
    /\ call = [fn |-> "serve", arg |-> <<>>]
    /\ ret = <<>>
    /\ input_csv \in ReloadFiles
    /\ uom_files \in UomFiles
    /\ LET loaded == reload_data(input_csv, uom_files, EmptyFrame, <<>>)
       IN  /\ ~loaded.raised
           /\ DF = loaded.DF
           /\ SOURCES = loaded.SOURCES
    /\ documents = <<>>
    /\ reload_pc = "idle"
    /\ InitPages

\* upload(), up to the call of _reload_data: the table is written to INPUT_CSV
UploadSave(file) ==
    /\ call.fn = "serve" /\ reload_pc = "idle"
    /\ input_csv' = file
    /\ reload_pc' = "load_csv"
    /\ UNCHANGED <<uom_files, DF, SOURCES, documents, pageVars, fnVars>>

\* _reload_data: DF = load_csv(INPUT_CSV); an exception ends the reload
ReloadLoadCsv ==
    /\ call.fn = "serve" /\ reload_pc = "load_csv"
    /\ LET loaded == load_csv(input_csv)
       IN  IF loaded = KeyError
           THEN DF' = DF /\ reload_pc' = "idle"
           ELSE DF' = loaded /\ reload_pc' = "apply_uom_lookup"
    /\ UNCHANGED <<input_csv, uom_files, SOURCES, documents, pageVars, fnVars>>

\* _reload_data: DF = apply_uom_lookup(DF, load_uom_lookup(...))
ReloadApplyUomLookup ==
    /\ call.fn = "serve" /\ reload_pc = "apply_uom_lookup"
    /\ DF' = apply_uom_lookup(DF, load_uom_lookup(uom_files))
    /\ reload_pc' = "unique_sources"
    /\ UNCHANGED <<input_csv, uom_files, SOURCES, documents, pageVars, fnVars>>

\* _reload_data: SOURCES = unique_sources(DF), and the lines after it
ReloadUniqueSources ==
    /\ call.fn = "serve" /\ reload_pc = "unique_sources"
    /\ SOURCES' = unique_sources(DF)
    /\ reload_pc' = "idle"
    /\ UNCHANGED <<input_csv, uom_files, DF, documents, pageVars, fnVars>>

\* preview() on another thread: DF is read once, whatever line the reload
\* has reached, and the documents are built of it
ServePreview(selected) ==
    /\ call.fn = "serve"
    /\ \E tieUp \in BOOLEAN :
          documents' = IF selected = {} THEN <<>>
                       ELSE preview(DF, selected, tieUp).documents
    /\ UNCHANGED <<input_csv, uom_files, DF, SOURCES, reload_pc, pageVars, fnVars>>

NextReload ==
    \/ \E file \in ReloadFiles : UploadSave(file)
    \/ ReloadLoadCsv
    \/ ReloadApplyUomLookup
    \/ ReloadUniqueSources
    \/ \E selected \in Selections : ServePreview(selected)

SpecReload == InitReload /\ [][NextReload]_vars

\* the tables of the complete loads: read, filtered and overlaid
CompleteLoads ==
    {reload_data(file, uom_files, EmptyFrame, <<>>).DF : file \in ReloadFiles}

\* C20: the documents a preview request answers with, whenever it runs, are
\* the documents of the table of one complete load, units overlaid.
C20_ConsistentSnapshot ==
    call.fn = "serve" =>
        \E df \in CompleteLoads, selected \in Selections, tieUp \in BOOLEAN :
            documents = IF selected = {} THEN <<>>
                        ELSE preview(df, selected, tieUp).documents

-----------------------------------------------------------------------------
(* The rows of a document built again, and built of its records reordered *)

\* the records of these documents: two of one key, keys that tie on name, lot
\* and expiry and differ in item code or unit, a key without expiry, a name
\* with a trailing space, and a record the movement filter drops
AgainRecs == {
    Rec(<<"A">>, <<"L", "1">>, Date(2026, 1, 1), <<"Z", "0", "1", "2", "3", "4">>, <<"K", "G">>, Num(TRUE, 5, 0), OutboundMarker),
    Rec(<<"A">>, <<"L", "1">>, Date(2026, 1, 1), <<"Z", "0", "1", "2", "3", "4">>, <<"K", "G">>, Num(FALSE, 25, 1),
        <<"Korekta ", "Wydanie sprzedazy", " 2">>),
    Rec(<<"A">>, <<"L", "1">>, Date(2026, 1, 1), <<"Z", "1", "2", "3", "4", "5">>, <<"K", "G">>, Num(TRUE, 5, 0), OutboundMarker),
    Rec(<<"A">>, <<"L", "1">>, Date(2026, 1, 1), <<"Z", "0", "1", "2", "3", "4">>, <<>>, Num(TRUE, 5, 0), OutboundMarker),
    Rec(<<"A">>, <<"L", "1">>, None, <<"Z", "0", "1", "2", "3", "4">>, <<"K", "G">>, Num(TRUE, 5, 0), OutboundMarker),
    Rec(<<"A", SP>>, <<"L", "1">>, Date(2026, 1, 1), <<"Z", "0", "1", "2", "3", "4">>, <<"K", "G">>, Num(TRUE, 3, 0), OutboundMarker),
    Rec(<<"A">>, <<"L", "1">>, Date(2026, 1, 1), <<"Z", "0", "1", "2", "3", "4">>, <<"K", "G">>, Num(FALSE, 2, 0), <<"Przyjecie zakupu">>) }

\* the orderings of n records
Orderings(n) == {f \in [1..n -> 1..n] : \A i, j \in 1..n : f[i] = f[j] => i = j}

\* the records of df in the order given
Reordered(df, order) == [df EXCEPT !.rows = [i \in 1..Len(df.rows) |-> df.rows[order[i]]]]

InitAgain ==
    /\ InitApp
    /\ ret = <<>>
    /\ \E has \in BOOLEAN, rows \in SeqsUpTo(AgainRecs, MaxAgainRecs) :
          \E order \in Orderings(Len(rows)) :
             call = [fn |-> "build_rows_again",
                     arg |-> [df |-> [has_doc_type |-> has, rows |-> rows], order |-> order]]

\* rows = REPORTER.build_rows_for_document(df_doc); "df" is df_doc after the call
BuildFirst ==
    /\ call.fn = "build_rows_again" /\ ret = <<>>
    /\ ret' = <<[df |-> df_after_build(call.arg.df),
                 rows |-> build_rows_for_document(call.arg.df)]>>
    /\ UNCHANGED <<call, appVars>>

\* the same call once more on the same frame
BuildAgain ==
    /\ call.fn = "build_rows_again" /\ Len(ret) = 1
    /\ ret' = Append(ret, [df |-> df_after_build(ret[1].df),
                           rows |-> build_rows_for_document(ret[1].df)])
    /\ UNCHANGED <<call, appVars>>

\* the call on a frame of the same records in another order
BuildReordered ==
    /\ call.fn = "build_rows_again" /\ Len(ret) = 2
    /\ LET df == Reordered(call.arg.df, call.arg.order)
       IN  ret' = Append(ret, [df |-> df_after_build(df),
                               rows |-> build_rows_for_document(df)])
    /\ UNCHANGED <<call, appVars>>

NextAgain == BuildFirst \/ BuildAgain \/ BuildReordered

SpecAgain == InitAgain /\ [][NextAgain]_vars

C27_DistinctDisplayedKeys ==
    RowsBuilt =>
        \A i, j \in 1..Len(Rows) :
            (/\ Rows[i].name = Rows[j].name
             /\ Rows[i].lot_no = Rows[j].lot_no
             /\ Rows[i].expiry = Rows[j].expiry
             /\ Rows[i].item_no = Rows[j].item_no
             /\ Rows[i].uom = Rows[j].uom) => i = j

-----------------------------------------------------------------------------
(* The customer names *)

\* a mutant of customer_file: the copy under output/ is preferred
customer_file_output_first(root, output) == IF output.exists THEN output ELSE root

\* _load_customer_names, path: NazwyKlienci.csv at the application data root
\* when it exists, else the one under output/
customer_file(root, output) == IF root.exists THEN root ELSE output

\* dict(zip(keys, values))
RECURSIVE DictZip(_, _)
DictZip(keys, values) ==
    IF keys = <<>> THEN EmptyDict
    ELSE DictSet(DictZip(SubSeq(keys, 1, Len(keys) - 1), SubSeq(values, 1, Len(values) - 1)),
                 keys[Len(keys)], values[Len(values)])

\* _load_customer_names
load_customer_names(root, output) ==
    LET file == customer_file(root, output)
    IN  IF ~file.exists THEN EmptyDict
        ELSE IF ~file.readable THEN EmptyDict
        ELSE IF "Nr" \in file.cols /\ "Nazwa szukana" \in file.cols
        THEN DictZip([i \in 1..Len(file.rows) |-> file.rows[i]["Nr"]],
                     [i \in 1..Len(file.rows) |-> file.rows[i]["Nazwa szukana"]])
        ELSE EmptyDict

\* a table of customer names with the columns given
NameTable(cols, rows) ==
    [exists |-> TRUE, readable |-> TRUE, cols |-> cols,
     rows |-> [i \in 1..Len(rows) |->
                 [c \in cols |-> IF c \in {"Nr", "nr"} THEN rows[i].nr
                                 ELSE IF c \in {"Nazwa szukana", "Nazwa"} THEN rows[i].name
                                 ELSE <<"Gdynia">>]]]

NameRows == [nr : {<<"S", "1">>, <<"S", "2">>}, name : {<<"Sklep">>, <<"Stacja">>}]

\* the files that may stand at either place: none, one that cannot be read,
\* a table with both columns, and tables where a column is missing or named
\* otherwise
NameFiles ==
    {NoFile, Unreadable}
    \cup {NameTable(cols, rows) :
             cols \in {{"Nr", "Nazwa szukana"}, {"Nr", "Nazwa szukana", "Miasto"}},
             rows \in SeqsUpTo(NameRows, MaxNameRows)}
    \cup {NameTable(cols, rows) :
             cols \in {{"Nr", "Nazwa"}, {"nr", "Nazwa szukana"}, {"Nr"}, {"Nazwa szukana"}},
             rows \in SeqsUpTo(NameRows, 1)}

\* the copy under output/ when the file at the root varies
OutputCopy == NameTable({"Nr", "Nazwa szukana"}, <<[nr |-> <<"S", "2">>, name |-> <<"Kiosk">>]>>)

InitNames ==
    /\ InitApp
    /\ ret = <<>>
    /\ \/ \E root \in NameFiles, output \in {NoFile, Unreadable, OutputCopy} :
             call = [fn |-> "load_customer_names", arg |-> <<root, output>>]
       \/ \E output \in NameFiles :
             call = [fn |-> "load_customer_names", arg |-> <<NoFile, output>>]

\* CUSTOMER_NAMES = _load_customer_names()
LoadCustomerNames ==
    /\ call.fn = "load_customer_names" /\ ret = <<>>
    /\ ret' = <<load_customer_names(call.arg[1], call.arg[2])>>
    /\ UNCHANGED <<call, appVars>>

NextNames == LoadCustomerNames

SpecNames == InitNames /\ [][NextNames]_vars

NamesLoaded == call.fn = "load_customer_names" /\ Len(ret) = 1

\* C22: the file read is the one at the root when there is one and else the
\* one under output/; when it can be read and has the columns "Nr" and
\* "Nazwa szukana" the mapping has exactly the cells of "Nr" as keys, each
\* with the name of its last row; in every other case, also when no file
\* exists, the mapping is empty.
C22_CustomerNames ==
    NamesLoaded =>
        LET file == IF call.arg[1].exists THEN call.arg[1] ELSE call.arg[2]
        IN  IF file.exists /\ file.readable /\ {"Nr", "Nazwa szukana"} \subseteq file.cols
            THEN /\ DOMAIN ret[1] = {file.rows[i]["Nr"] : i \in 1..Len(file.rows)}
                 /\ \A i \in 1..Len(file.rows) :
                       (\A j \in (i + 1)..Len(file.rows) : file.rows[j]["Nr"] # file.rows[i]["Nr"])
                          => ret[1][file.rows[i]["Nr"]] = file.rows[i]["Nazwa szukana"]
            ELSE ret[1] = EmptyDict

\* S1 -> Sklep, S2 -> Stacja at the root and S2 -> Kiosk under output/: the
\* names of the root are returned
C22_Witness ==
    /\ NamesLoaded
    /\ call.arg[1] = NameTable({"Nr", "Nazwa szukana"},
                               <<[nr |-> <<"S", "1">>, name |-> <<"Sklep">>],
                                 [nr |-> <<"S", "2">>, name |-> <<"Stacja">>]>>)
    /\ call.arg[2] = OutputCopy
    /\ ret[1][<<"S", "1">>] = <<"Sklep">>
    /\ ret[1][<<"S", "2">>] = <<"Stacja">>

-----------------------------------------------------------------------------
(* The upload and the base customers, request by request *)

\* str.endswith
EndsWith(s, p) == Len(s) >= Len(p) /\ SubSeq(s, Len(s) - Len(p) + 1, Len(s)) = p

\* "_".join(s.split()) of a text without leading whitespace
RECURSIVE JoinSplit(_)
JoinSplit(s) ==
    IF s = <<>> THEN <<>>
    ELSE IF Head(s) = SP
    THEN LET rest == LStripChars(s, {SP})
         IN  IF rest = <<>> THEN <<>> ELSE <<"_">> \o JoinSplit(rest)
    ELSE <<Head(s)>> \o JoinSplit(Tail(s))

\* the characters werkzeug keeps in a file name
FilenameChars ==
    {LowerCase[i] : i \in 1..26} \cup {UpperCase[i] : i \in 1..26} \cup Digits
    \cup {"_", ".", "-"}

\* werkzeug's secure_filename of an ASCII name: path separators become
\* spaces, the words are joined by "_", other characters are dropped, dots
\* and underscores are stripped of both ends
secure_filename(name) ==
    LET spaced == [i \in 1..Len(name) |-> IF name[i] = "/" THEN SP ELSE name[i]]
        joined == JoinSplit(LStripChars(spaced, {SP}))
    IN  StripChars(SelectSeq(joined, LAMBDA c : c \in FilenameChars), {".", "_"})

\* del d[k], where k may be absent
DictRemove(d, k) == [x \in DOMAIN d \ {k} |-> d[x]]

Jednostki_csv == <<"J", "e", "d", "n", "o", "s", "t", "k", "i", ".", "c", "s", "v">>

NazwyKlienci_csv == <<"N", "a", "z", "w", "y", "K", "l", "i", "e", "n", "c", "i", ".", "c", "s", "v">>

Atest_pdf == <<"A", "t", "e", "s", "t", ".", "p", "d", "f">>

\* a generated PDF
PdfFile == [exists |-> TRUE, readable |-> FALSE, pdf |-> TRUE]

\* OUTPUT_DIR before the requests: the unit reference, the customer names
\* and a generated PDF
OutputFiles ==
    (Jednostki_csv :> Table(TRUE, TRUE, <<[Nr |-> <<"1", "2", "3", "4">>, UOM |-> <<"k", "i", "l", "o", "g", "r", "a", "m">>]>>))
    @@ (NazwyKlienci_csv :> NameTable({"Nr", "Nazwa szukana"}, <<[nr |-> <<"S", "1">>, name |-> <<"Sklep">>]>>))
    @@ (Atest_pdf :> PdfFile)

\* the columns of the canonical CSV in the order of CSV_COLUMNS
ColumnOrder ==
    <<"date_posted", "doc_type", "doc_no", "item_no", "source_no", "name",
      "lot_no", "expiry", "qty">>

\* CSV_COLUMNS: the header of a column, diacritics dropped
CsvHeader(c) ==
    CASE c = "date_posted" -> <<"D", "a", "t", "a", " ", "k", "s", "i", "e", "g", "o", "w", "a", "n", "i", "a">>
      [] c = "doc_type" -> <<"T", "y", "p", " ", "d", "o", "k", "u", "m", "e", "n", "t", "u">>
      [] c = "doc_no" -> <<"N", "r", " ", "d", "o", "k", "u", "m", "e", "n", "t", "u">>
      [] c = "item_no" -> <<"N", "r", " ", "z", "a", "p", "a", "s", "u">>
      [] c = "source_no" -> <<"N", "r", " ", "z", "r", "o", "d", "l", "a">>
      [] c = "name" -> <<"N", "a", "z", "w", "a">>
      [] c = "lot_no" -> <<"N", "r", " ", "p", "a", "r", "t", "i", "i">>
      [] c = "expiry" -> <<"D", "a", "t", "a", " ", "w", "a", "z", "n", "o", "s", "c", "i">>
      [] c = "qty" -> <<"I", "l", "o", "s", "c">>

\* the file at output/Jednostki.csv as load_uom_lookup reads it: a table of
\* the canonical columns has the code column "Nr zapasu" and no unit column
ReferenceView(file) ==
    IF "cols" \in DOMAIN file /\ "exists" \notin DOMAIN file
    THEN LET present == SelectSeq(ColumnOrder, LAMBDA c : c \in file.cols)
         IN  HeaderTable([i \in 1..Len(present) |-> CsvHeader(present[i])],
                         [i \in 1..Len(file.rows) |->
                             [Nr |-> IF "item_no" \in file.cols THEN file.rows[i].item_no ELSE <<>>,
                              UOM |-> <<>>]])
    ELSE file

\* the candidate paths of the unit reference: output/Jednostki.csv, and no
\* file at the fallback places
unit_files(dir) ==
    <<ReferenceView(DictGet(dir, Jednostki_csv, NoFile)), NoFile>>

\* base_customers.json holding {"base_customers": customer_ids}
JsonFile(customer_ids) ==
    [exists |-> TRUE, readable |-> TRUE, base_customers |-> customer_ids]

\* _load_base_customers: [] when the file is missing or cannot be read
load_base_customers(file) ==
    IF ~file.exists THEN <<>>
    ELSE IF ~file.readable THEN <<>>
    ELSE file.base_customers

\* _save_base_customers: the list is written; an exception of the write is
\* swallowed and the file stays as it was
save_base_customers(file, customer_ids, writable) ==
    IF writable THEN JsonFile(customer_ids) ELSE file

\* index(): the sources offered, all of them when no base customer is chosen
filtered_sources(sources, base_customers) ==
    IF base_customers # <<>>
    THEN SelectSeq(sources, LAMBDA x : \E i \in 1..Len(base_customers) : base_customers[i] = x)
    ELSE sources

Msg_choose == "Wybierz plik .xlsx lub .csv do wgrania."

Msg_unsupported == "Nieobslugiwany format. Wgraj .xlsx lub .csv"

Msg_uploaded == "Plik zostal wgrany. Lista zrodel odswiezona."

Msg_error == "Blad wgrywania pliku"

\* the names of the uploaded files: none, names of files of OUTPUT_DIR (one
\* with a path before it), and new names with each kind of extension
UploadNames ==
    {<<>>, Jednostki_csv, <<".", ".", "/", "N", "a", "z", "w", "y", "K", "l", "i", "e", "n", "c", "i", ".", "c", "s", "v">>, Atest_pdf,
     <<"d", "a", "n", "e", " ", "1", ".", "C", "S", "V">>, <<"d", "a", "n", "e", ".", "x", "l", "s", "x">>}

\* the uploaded files: a record, a record without the quantity column, and
\* a file pandas cannot read
UploadTables ==
    {[cols |-> Columns, rows |-> <<r>>] :
        r \in {x \in RawRecs : x.name = <<"A">> /\ ~Excluded(x)}}
    \cup {[cols |-> Columns \ {"qty"}, rows |-> <<Restrict(r, Columns \ {"qty"})>>] :
             r \in {x \in RawRecs : x.name = <<"A">> /\ ~Excluded(x)}}

UploadRequests ==
    {[file |-> FALSE]}
    \cup {[file |-> TRUE, filename |-> n, content |-> c] :
             n \in UploadNames, c \in UploadTables \cup {Unreadable}}

\* request.form.getlist('customers')
CustomerSelections == {<<<<"S", "1">>>>, <<<<"S", "2">>>>}

\* the module is imported with the files in place
InitUpload ==
    /\ call = [fn |-> "upload", arg |-> <<>>]
    /\ ret = <<>>
    /\ input_csv \in UploadTables \cup {EmptyFrame}
    /\ output_dir = OutputFiles
    /\ uom_files = unit_files(output_dir)
    /\ LET loaded == reload_data(input_csv, uom_files, EmptyFrame, <<>>)
       IN  /\ ~loaded.raised
           /\ DF = loaded.DF
           /\ SOURCES = loaded.SOURCES
    /\ documents = <<>>
    /\ reload_pc = "idle"
    /\ flashed = <<>>
    /\ base_customers_json \in {NoFile, JsonFile(<<<<"S", "1">>>>)}
    /\ BASE_CUSTOMERS = load_base_customers(base_customers_json)

\* upload(), the whole request: the .csv is saved under its own name in
\* OUTPUT_DIR and read, the .xlsx is read; the table is written to INPUT_CSV,
\* the success notice is flashed and _reload_data is called; an exception
\* flashes the error notice; at the end the file of that name in OUTPUT_DIR
\* is removed. No file and an empty name return before all that.
UploadRequest(u) ==
    /\ call.fn = "upload"
    /\ IF ~u.file \/ u.filename = <<>>
       THEN /\ flashed' = <<Msg_choose>>
            /\ UNCHANGED <<input_csv, uom_files, DF, SOURCES, output_dir, BASE_CUSTOMERS>>
       ELSE LET filename == secure_filename(u.filename)
                name_lower == Lower(filename)
                excel == \/ EndsWith(name_lower, <<".", "x", "l", "s", "x">>)
                         \/ EndsWith(name_lower, <<".", "x", "l", "s">>)
                csv == ~excel /\ EndsWith(name_lower, <<".", "c", "s", "v">>)
                saved == IF csv THEN DictSet(output_dir, filename, u.content) ELSE output_dir
                written == (excel \/ csv) /\ u.content # Unreadable
            IN  \E reloaded \in {IF written
                                 THEN reload_data(u.content, unit_files(saved), DF, SOURCES)
                                 ELSE [raised |-> FALSE, DF |-> DF, SOURCES |-> SOURCES]} :
                /\ input_csv' = IF written THEN u.content ELSE input_csv
                /\ DF' = reloaded.DF
                /\ SOURCES' = reloaded.SOURCES
                /\ BASE_CUSTOMERS' = IF written /\ ~reloaded.raised
                                     THEN load_base_customers(base_customers_json)
                                     ELSE BASE_CUSTOMERS
                /\ flashed' = IF ~(excel \/ csv) THEN <<Msg_unsupported>>
                              ELSE IF ~written THEN <<Msg_error>>
                              ELSE IF reloaded.raised THEN <<Msg_uploaded, Msg_error>>
                              ELSE <<Msg_uploaded>>
                /\ output_dir' = DictRemove(saved, filename)
                /\ uom_files' = unit_files(output_dir')
    /\ UNCHANGED <<documents, reload_pc, base_customers_json, fnVars>>

\* define_base_customers(), POST: the selection is saved and becomes
\* BASE_CUSTOMERS whether or not the file could be written
DefineBaseCustomers(selected, writable) ==
    /\ call.fn = "upload"
    /\ base_customers_json' = save_base_customers(base_customers_json, selected, writable)
    /\ BASE_CUSTOMERS' = selected
    /\ flashed' = <<"Zapisano bazowych klientow">>
    /\ UNCHANGED <<input_csv, uom_files, DF, SOURCES, documents, reload_pc, output_dir, fnVars>>

NextUpload ==
    \/ \E u \in UploadRequests : UploadRequest(u)
    \/ \E selected \in CustomerSelections, writable \in BOOLEAN :
          DefineBaseCustomers(selected, writable)

SpecUpload == InitUpload /\ [][NextUpload]_vars

\* C23: an upload, whatever its file name and outcome, leaves every file
\* that was in the output directory before the request in place with its
\* previous contents.
C23_OutputFilesIntact ==
    [][call.fn = "upload" =>
         \A n \in DOMAIN output_dir :
            n \in DOMAIN output_dir' /\ output_dir'[n] = output_dir[n]]_vars

\* C24: after any sequence of uploads DF and SOURCES are what loading the
\* canonical CSV now on disk gives.
C24_TableOfFileOnDisk ==
    call.fn = "upload" =>
        LET loaded == reload_data(input_csv, uom_files, EmptyFrame, <<>>)
        IN  /\ ~loaded.raised
            /\ DF = loaded.DF
            /\ SOURCES = loaded.SOURCES

\* C25: no upload request flashes both the success notice and the error
\* notice.
C25_SuccessOnlyAfterReload ==
    call.fn = "upload" =>
        ~(/\ \E i \in 1..Len(flashed) : flashed[i] = Msg_uploaded
          /\ \E i \in 1..Len(flashed) : flashed[i] = Msg_error)

\* C26: after any submissions of base customers and any reloads,
\* BASE_CUSTOMERS is the list base_customers.json holds.
C26_SelectionPersisted ==
    call.fn = "upload" =>
        BASE_CUSTOMERS =
            IF base_customers_json.exists /\ base_customers_json.readable
            THEN base_customers_json.base_customers
            ELSE <<>>

====
